---- MODULE Spec2Model ----
(***************************************************************************)
(* Model of the OpenTUI accessibility bridge: the native node store        *)
(* (AccessibilityBridge), the node model (AccessibilityNode), the          *)
(* bookkeeping of the Linux AT-SPI2 backend (LinuxATSPI), the tree mirror  *)
(* (AccessibilityManager) with its native bridge, and the pure mappings    *)
(* (StateFlags, roles, performAction).  Every allocation succeeds, except  *)
(* in SpecAlloc.                                                           *)
(***************************************************************************)
EXTENDS Integers, Sequences, FiniteSets, TLC

\* ------------------------------------------------------------------------
\* Bounds of the model
\* ------------------------------------------------------------------------
\* Number of bridge calls in one run that uses two ids; a run that uses three
\* ids makes two calls fewer.
MaxSteps == 6
\* Number of calls in a script that is run against two bridges.
MaxScript == 3
\* Length of the children_ids lists addChild and removeChild are applied to.
MaxChildren == 3

\* ------------------------------------------------------------------------
\* Values
\* ------------------------------------------------------------------------
\* A null optional id (?[]const u8 = null); real ids are positive.
None == 0
\* A null optional text field.
Null == "<null>"

\* Every id a caller may use, and the sets of ids the runs draw from.
Ids == 1 .. 3
Universes == { 1 .. 2, 1 .. 3 }
\* Number of calls of a run over the ids U.
Limit(U) == IF Cardinality(U) > 2 THEN MaxSteps - 2 ELSE MaxSteps

\* Bit position of each flag in the packed struct(u32) StateFlags.
FlagBit ==
  [ checked |-> 0, selected |-> 1, expanded |-> 2, disabled |-> 3,
    readonly |-> 4, required |-> 5, invalid |-> 6, pressed |-> 7,
    focusable |-> 8, focused |-> 9, hidden |-> 10, busy |-> 11,
    modal |-> 12, multiselectable |-> 13 ]

Flags == DOMAIN FlagBit

RECURSIVE SumBits(_)
SumBits(S) ==
  IF S = {} THEN 0
  ELSE LET f == CHOOSE x \in S : TRUE
       IN  2 ^ FlagBit[f] + SumBits(S \ {f})

\* StateFlags.toU32: the flags (a set of flag names) as the packed u32.
toU32(flags) == SumBits(flags)

\* Mutant of fromU32: every flag is read one bit too high.
fromU32OneBitUp(n) == { f \in Flags : (n \div 2 ^ (FlagBit[f] + 1)) % 2 = 1 }

\* StateFlags.fromU32: the flags whose bit is set in the u32.
fromU32(n) == { f \in Flags : (n \div 2 ^ FlagBit[f]) % 2 = 1 }

\* The Role enumeration.
Roles ==
  { "none", "button", "checkbox", "textbox", "radio", "combobox", "list",
    "list_item", "menu", "menu_item", "menu_bar", "tab", "tab_list",
    "tab_panel", "dialog", "alert", "progressbar", "slider", "scrollbar",
    "separator", "group", "image", "link", "heading", "paragraph", "region",
    "application", "window", "tree", "tree_item", "grid", "grid_cell", "row",
    "column_header", "row_header", "tooltip", "status", "toolbar", "search",
    "form", "article", "document", "custom" }

\* Mutant of roleToControlType: the ids of checkbox and combobox swapped.
roleToControlTypeSwapped(role) ==
  CASE role = "checkbox" -> 50003
    [] role = "combobox" -> 50002
    [] OTHER -> 50025

\* roleToControlType (Windows UIA control type ids).
roleToControlType(role) ==
  CASE role = "button" -> 50000
    [] role = "checkbox" -> 50002
    [] role = "textbox" -> 50004
    [] role = "radio" -> 50013
    [] role = "combobox" -> 50003
    [] role = "list" -> 50008
    [] role = "list_item" -> 50007
    [] role = "menu" -> 50009
    [] role = "menu_item" -> 50011
    [] role = "menu_bar" -> 50010
    [] role = "tab" -> 50019
    [] role = "tab_list" -> 50018
    [] role \in { "dialog", "window" } -> 50032
    [] role = "progressbar" -> 50012
    [] role = "slider" -> 50015
    [] role = "scrollbar" -> 50014
    [] role = "separator" -> 50038
    [] role \in { "group", "region" } -> 50026
    [] role = "image" -> 50006
    [] role = "link" -> 50005
    [] role \in { "heading", "paragraph", "article", "document" } -> 50020
    [] role = "tree" -> 50023
    [] role = "tree_item" -> 50024
    [] role = "tab_panel" -> 50033
    [] role \in { "none", "alert", "grid", "grid_cell", "row", "column_header",
                  "row_header", "tooltip", "status", "toolbar", "search",
                  "form", "application", "custom" } -> 50025

\* LinuxATSPI.roleToATSPIRole (AT-SPI2 role numbers).
roleToATSPIRole(role) ==
  CASE role = "button" -> 42
    [] role = "checkbox" -> 15
    [] role = "textbox" -> 60
    [] role = "radio" -> 43
    [] role = "combobox" -> 17
    [] role = "list" -> 34
    [] role = "list_item" -> 35
    [] role = "menu" -> 37
    [] role = "menu_item" -> 38
    [] role = "menu_bar" -> 36
    [] role = "tab" -> 39
    [] role = "tab_list" -> 40
    [] role = "dialog" -> 23
    [] role = "alert" -> 2
    [] role = "progressbar" -> 41
    [] role = "slider" -> 53
    [] role = "scrollbar" -> 47
    [] role = "separator" -> 49
    [] role \in { "group", "region" } -> 25
    [] role = "image" -> 26
    [] role = "link" -> 70
    [] role = "heading" -> 68
    [] role = "paragraph" -> 73
    [] role = "window" -> 22
    [] role = "tree" -> 64
    [] role = "tree_item" -> 65
    [] role = "none" -> 0
    [] OTHER -> 66

\* MacOSNSA.roleToNSARole (NSAccessibility role names).
roleToNSARole(role) ==
  CASE role = "button" -> "AXButton"
    [] role = "checkbox" -> "AXCheckBox"
    [] role = "textbox" -> "AXTextField"
    [] role = "radio" -> "AXRadioButton"
    [] role = "combobox" -> "AXComboBox"
    [] role = "list" -> "AXList"
    [] role = "list_item" -> "AXStaticText"
    [] role = "menu" -> "AXMenu"
    [] role = "menu_item" -> "AXMenuItem"
    [] role = "menu_bar" -> "AXMenuBar"
    [] role = "tab" -> "AXRadioButton"
    [] role = "tab_list" -> "AXTabGroup"
    [] role = "tab_panel" -> "AXGroup"
    [] role = "dialog" -> "AXSheet"
    [] role = "alert" -> "AXSheet"
    [] role = "progressbar" -> "AXProgressIndicator"
    [] role = "slider" -> "AXSlider"
    [] role = "scrollbar" -> "AXScrollBar"
    [] role = "separator" -> "AXSplitter"
    [] role = "group" -> "AXGroup"
    [] role = "region" -> "AXGroup"
    [] role = "image" -> "AXImage"
    [] role = "link" -> "AXLink"
    [] role = "heading" -> "AXStaticText"
    [] role = "paragraph" -> "AXStaticText"
    [] role = "window" -> "AXWindow"
    [] role = "tree" -> "AXOutline"
    [] role = "tree_item" -> "AXRow"
    [] role = "grid" -> "AXTable"
    [] role = "grid_cell" -> "AXCell"
    [] role = "row" -> "AXRow"
    [] role = "column_header" -> "AXColumn"
    [] role = "row_header" -> "AXRow"
    [] role = "tooltip" -> "AXHelpTag"
    [] role = "status" -> "AXStaticText"
    [] role = "toolbar" -> "AXToolbar"
    [] role = "search" -> "AXTextField"
    [] role = "form" -> "AXGroup"
    [] role = "article" -> "AXGroup"
    [] role = "document" -> "AXScrollArea"
    [] role = "application" -> "AXApplication"
    [] role = "none" -> "AXUnknown"
    [] role = "custom" -> "AXUnknown"

\* The snapshot of the bridge's own test: a focusable button "Click Me"
\* without parent.
BaseData(id) ==
  [ id |-> id, role |-> "button", name |-> "Click Me", value |-> Null,
    description |-> Null, hint |-> Null,
    rect |-> [x |-> 0, y |-> 0, width |-> 10, height |-> 1],
    state_flags |-> {"focusable"}, parent_id |-> None,
    live_setting |-> "off", orientation |-> "horizontal", level |-> 0,
    min_value |-> 0, max_value |-> 0, current_value |-> 0 ]

\* ------------------------------------------------------------------------
\* Node model (node.zig)
\* ------------------------------------------------------------------------
\* Mutant of optionalSliceEqual: the case of two null slices is missing, so
\* two absent texts compare as different.
optionalSliceEqualMissesNull(a, b) ==
  IF a = Null \/ b = Null THEN FALSE
  ELSE a = b

\* Helper to compare optional slices.
optionalSliceEqual(a, b) ==
  IF a = Null /\ b = Null THEN TRUE
  ELSE IF a = Null \/ b = Null THEN FALSE
  ELSE a = b

optionalIdEqual(a, b) ==
  IF a = None /\ b = None THEN TRUE
  ELSE IF a = None \/ b = None THEN FALSE
  ELSE a = b

\* AccessibilityNode.init: owned copies of all fields of the snapshot, no
\* children, dirty.
AccessibilityNodeInit(data) ==
  [ role |-> data.role, name |-> data.name, value |-> data.value,
    description |-> data.description, hint |-> data.hint,
    rect |-> data.rect, state |-> data.state_flags,
    live |-> data.live_setting, orientation |-> data.orientation,
    level |-> data.level, min_value |-> data.min_value,
    max_value |-> data.max_value, current_value |-> data.current_value,
    parent_id |-> data.parent_id, children_ids |-> << >>, dirty |-> TRUE ]

\* The field-by-field comparison of updateFromData: TRUE iff some field of
\* the snapshot differs from the node's.
dataDiffers(self, data) ==
  \/ self.role # data.role
  \/ ~optionalSliceEqual(self.name, data.name)
  \/ ~optionalSliceEqual(self.value, data.value)
  \/ ~optionalSliceEqual(self.description, data.description)
  \/ ~optionalSliceEqual(self.hint, data.hint)
  \/ self.rect # data.rect
  \/ toU32(self.state) # toU32(data.state_flags)
  \/ self.live # data.live_setting
  \/ self.orientation # data.orientation
  \/ self.level # data.level
  \/ self.min_value # data.min_value
  \/ self.max_value # data.max_value
  \/ self.current_value # data.current_value
  \/ ~optionalIdEqual(self.parent_id, data.parent_id)

\* Mutant of updateFromData: the value field is compared but never copied.
updateFromDataKeepsValue(self, data) ==
  LET changed == dataDiffers(self, data)
  IN  [ node |-> [ self EXCEPT
                     !.role = data.role, !.name = data.name,
                     !.description = data.description, !.hint = data.hint,
                     !.rect = data.rect, !.state = data.state_flags,
                     !.live = data.live_setting,
                     !.orientation = data.orientation, !.level = data.level,
                     !.min_value = data.min_value, !.max_value = data.max_value,
                     !.current_value = data.current_value,
                     !.parent_id = data.parent_id,
                     !.dirty = IF changed THEN TRUE ELSE @ ],
        changed |-> changed ]

\* AccessibilityNode.updateFromData: copies every differing field, sets
\* dirty when something differed, returns the node and the changed flag.
updateFromData(self, data) ==
  LET changed == dataDiffers(self, data)
      copied ==
        [ self EXCEPT
            !.role = data.role,
            !.name = IF optionalSliceEqual(@, data.name) THEN @ ELSE data.name,
            !.value = IF optionalSliceEqual(@, data.value) THEN @ ELSE data.value,
            !.description =
               IF optionalSliceEqual(@, data.description) THEN @ ELSE data.description,
            !.hint = IF optionalSliceEqual(@, data.hint) THEN @ ELSE data.hint,
            !.rect = data.rect,
            !.state = IF toU32(@) # toU32(data.state_flags) THEN data.state_flags ELSE @,
            !.live = data.live_setting,
            !.orientation = data.orientation,
            !.level = data.level,
            !.min_value = data.min_value,
            !.max_value = data.max_value,
            !.current_value = data.current_value,
            !.parent_id =
               IF optionalIdEqual(@, data.parent_id) THEN @ ELSE data.parent_id,
            !.dirty = IF changed THEN TRUE ELSE @ ]
  IN  [ node |-> copied, changed |-> changed ]

\* The allocations of updateFromData that can fail, in the order the fields
\* are copied: each is the dupe of a text that differs and is not null.
UpdateFaultPoints == << "name", "value", "description", "hint", "parent_id" >>

Place(point) == CHOOSE i \in DOMAIN UpdateFaultPoints : UpdateFaultPoints[i] = point

\* What a text field holds after `free(old)` when the dupe that follows
\* fails: the pointer to the freed text.
Freed == "<freed>"
FreedId == 0 - 1

\* AccessibilityNode.updateFromData when the dupe for the field `point`
\* fails: the fields before it are copied, the field's old text is already
\* freed, the fields after it and dirty are as they were.
updateFromDataFails(self, data, point) ==
  LET full == updateFromData(self, data).node
      at   == Place(point)
      text(f, old, new) ==
        IF Place(f) < at THEN new
        ELSE IF f = point /\ old # Null THEN Freed
        ELSE old
      plain(old, new) == IF point = "parent_id" THEN new ELSE old
  IN  [ self EXCEPT
          !.role = full.role,
          !.name = text("name", @, full.name),
          !.value = text("value", @, full.value),
          !.description = text("description", @, full.description),
          !.hint = text("hint", @, full.hint),
          !.rect = plain(@, full.rect),
          !.state = plain(@, full.state),
          !.live = plain(@, full.live),
          !.orientation = plain(@, full.orientation),
          !.level = plain(@, full.level),
          !.min_value = plain(@, full.min_value),
          !.max_value = plain(@, full.max_value),
          !.current_value = plain(@, full.current_value),
          !.parent_id = IF point = "parent_id" /\ @ # None THEN FreedId ELSE @ ]

\* The dupe for `point` is reached: the new text differs and is not null.
Dupes(self, data, point) ==
  IF point = "parent_id"
  THEN ~optionalIdEqual(self.parent_id, data.parent_id) /\ data.parent_id # None
  ELSE ~optionalSliceEqual(self[point], data[point]) /\ data[point] # Null

\* Mutant of addChild: the id is inserted in front instead of appended.
addChildInFront(self, child_id) ==
  [ self EXCEPT !.children_ids = << child_id >> \o @, !.dirty = TRUE ]

\* AccessibilityNode.addChild: append a copy of the id, mark dirty.
addChild(self, child_id) ==
  [ self EXCEPT !.children_ids = Append(@, child_id), !.dirty = TRUE ]

\* Index of the first entry of s equal to x, 0 when there is none.
firstIndex(s, x) ==
  IF \E i \in 1 .. Len(s) : s[i] = x
  THEN CHOOSE i \in 1 .. Len(s) : s[i] = x /\ \A j \in 1 .. (i - 1) : s[j] # x
  ELSE 0

\* Mutant of orderedRemove: ArrayList.swapRemove, the last entry takes the
\* place of the removed one.
swapRemove(s, i) ==
  [ k \in 1 .. (Len(s) - 1) |-> IF k = i THEN s[Len(s)] ELSE s[k] ]

\* ArrayList.orderedRemove(i), 1-based.
orderedRemove(s, i) ==
  [ k \in 1 .. (Len(s) - 1) |-> IF k < i THEN s[k] ELSE s[k + 1] ]

\* AccessibilityNode.removeChild: remove the first entry equal to the id.
removeChild(self, child_id) ==
  LET i == firstIndex(self.children_ids, child_id)
  IN  IF i = 0 THEN self
      ELSE [ self EXCEPT !.children_ids = orderedRemove(@, i), !.dirty = TRUE ]

\* ------------------------------------------------------------------------
\* Linux AT-SPI2 backend (linux_atspi.zig): local bookkeeping only
\* ------------------------------------------------------------------------
\* LinuxATSPI.create followed by a successful initializeATSPI.
\* action_callback is TRUE when a callback is registered (null otherwise);
\* freed is TRUE once deinit has destroyed the backend.
platformCreate ==
  [ initialized |-> TRUE, nodes |-> {}, root_node_id |-> None,
    focused_node_id |-> None, action_callback |-> FALSE, freed |-> FALSE ]

\* LinuxATSPI.create when initializeATSPI does not set initialized.
platformCreateFailed == [ platformCreate EXCEPT !.initialized = FALSE ]

\* Mutant of platformAddNode: the node is tracked without looking at
\* initialized.
platformAddNodeUnchecked(p, id, node) ==
  [ p |-> [ p EXCEPT !.nodes = @ \cup {id},
                     !.root_node_id =
                        IF node.parent_id = None THEN id ELSE @ ],
    err |-> "none" ]

\* Every backend operation returns the backend's new state and its error
\* ("none" on success).
platformAddNode(p, id, node) ==
  IF ~p.initialized THEN [ p |-> p, err |-> "none" ]
  ELSE [ p |-> [ p EXCEPT !.nodes = @ \cup {id},
                          !.root_node_id =
                             IF node.parent_id = None THEN id ELSE @ ],
         err |-> "none" ]

platformUpdateNode(p, id) ==
  IF ~p.initialized THEN [ p |-> p, err |-> "none" ]
  ELSE IF id \notin p.nodes THEN [ p |-> p, err |-> "NodeNotFound" ]
  ELSE [ p |-> p, err |-> "none" ]

\* Mutant of platformRemoveNode: root_node_id is kept when the root is
\* removed.
platformRemoveNodeKeepsRoot(p, id) ==
  IF ~p.initialized THEN [ p |-> p, err |-> "none" ]
  ELSE [ p |-> [ p EXCEPT !.nodes = @ \ {id},
                          !.root_node_id = @,
                          !.focused_node_id = IF @ = id THEN None ELSE @ ],
         err |-> "none" ]

platformRemoveNode(p, id) ==
  IF ~p.initialized THEN [ p |-> p, err |-> "none" ]
  ELSE [ p |-> [ p EXCEPT !.nodes = @ \ {id},
                          !.root_node_id = IF @ = id THEN None ELSE @,
                          !.focused_node_id = IF @ = id THEN None ELSE @ ],
         err |-> "none" ]

platformNotifyFocusChanged(p, id) ==
  IF ~p.initialized THEN [ p |-> p, err |-> "none" ]
  ELSE [ p |-> [ p EXCEPT !.focused_node_id = id ], err |-> "none" ]

\* Mutant of platformNotifyPropertyChanged: the tracked node is not found.
platformNotifyPropertyChangedUntracked(p, id) ==
  IF ~p.initialized THEN [ p |-> p, err |-> "none" ]
  ELSE [ p |-> p, err |-> "NodeNotFound" ]

platformNotifyPropertyChanged(p, id) ==
  IF ~p.initialized THEN [ p |-> p, err |-> "none" ]
  ELSE IF id \notin p.nodes THEN [ p |-> p, err |-> "NodeNotFound" ]
  ELSE [ p |-> p, err |-> "none" ]

platformAnnounce(p) == [ p |-> p, err |-> "none" ]

\* LinuxATSPI.setActionCallback
platformSetActionCallback(p, callback) ==
  [ p EXCEPT !.action_callback = callback ]

\* LinuxATSPI.deinit: the tracked references and ids are released and the
\* backend is destroyed; action_callback is not touched.
platformDeinit(p) ==
  [ p EXCEPT !.nodes = {}, !.root_node_id = None, !.focused_node_id = None,
             !.freed = TRUE ]

\* ------------------------------------------------------------------------
\* The bridge (AccessibilityBridge)
\* ------------------------------------------------------------------------
\* ------------------------------------------------------------------------
\* Threads and the store mutex (AccessibilityBridge.mutex, std.Thread.Mutex)

\* The threads that call the bridge: the application's thread and the
\* backend's message-loop thread.
Threads == { "ui", "backend" }

Unlocked == "none"

\* A thread's position: the operation it is in and how far it got. at is
\* "idle", "lock" (about to call mutex.lock()), "locked" (holds the mutex,
\* body not yet run), "unlocked" (in a body that took no lock), "callback"
\* (inside the action callback the backend invoked from tick(), about to
\* call mutex.lock() again), "panic", or "done" (body run, about to return).
Position(op, at, id, flag) == [ op |-> op, at |-> at, id |-> id, flag |-> flag ]

Idle == Position("none", "idle", None, FALSE)

\* One caller at a time: nobody holds the mutex between two calls.
Sequential == [ mutex |-> Unlocked, pc |-> [ t \in Threads |-> Idle ] ]

\* The body of an operation runs on the thread that holds the mutex.
Ran(th) ==
  IF th.mutex \in Threads /\ th.pc[th.mutex].at = "locked"
  THEN [ th EXCEPT !.pc[th.mutex].at = "done" ]
  ELSE th

VARIABLES
  nodes,       \* the store: a function from the ids in the store to nodes
  root_id,     \* ?id
  focused_id,  \* ?id
  enabled,     \* BOOLEAN
  platform,    \* the backend's state
  calls,       \* the backend calls made by the last bridge call, in order
  result,      \* what the last bridge call returned: "ok" or an error name
  last,        \* the last bridge call: operation, arguments, branch taken
  steps,       \* number of bridge calls made so far
  ids,         \* the ids the caller uses in this run
  fault,       \* the allocation that failed in the last bridge call, or "none"
  tape,        \* the script of calls of a run against two bridges, else << >>
  ref,         \* the store the first bridge had at the end of the script
  manager,     \* the AccessibilityManager object (TypeScript side)
  probe,       \* a pure function under test: its name, argument and result
  threads      \* the store mutex and each calling thread's position

vars == << nodes, root_id, focused_id, enabled, platform, calls, result, last,
           steps, ids, fault, tape, ref, manager, probe, threads >>

\* The failed allocations after which the store holds a pointer to freed
\* memory ("free": a text of a node freed before the dupe that failed); the
\* runs end there, before the first read of that memory.
Dangling == { "addNode", "addChild", "root_id", "free" }

\* One more call is within the run's bound; every allocation it makes
\* succeeds.
Tick ==
  /\ steps < Limit(ids)
  /\ fault \notin Dangling
  /\ steps' = steps + 1
  /\ fault' = "none"
  /\ threads' = Ran(threads)
  /\ UNCHANGED << ids, tape, ref, manager, probe >>

NoData == BaseData(None)

Call(fn, id) == [ fn |-> fn, id |-> id ]

Last(op, id, data, found, changed) ==
  [ op |-> op, id |-> id, data |-> data, found |-> found, changed |-> changed ]

\* AccessibilityBridge.init: empty store, enabled, backend created.
InitBridge ==
  /\ nodes = << >>
  /\ root_id = None
  /\ focused_id = None
  /\ enabled = TRUE
  /\ platform = platformCreate
  /\ calls = << >>
  /\ result = "ok"
  /\ last = Last("init", None, NoData, FALSE, FALSE)
  /\ steps = 0
  /\ fault = "none"

\* The node store of the bridge.
Store == [ nodes |-> nodes, root_id |-> root_id, focused_id |-> focused_id ]

\* ------------------------------------------------------------------------
\* AccessibilityManager.performAction
\* ------------------------------------------------------------------------
\* What a renderable can do: the methods it has (`"m" in r && typeof r.m ===
\* "function"`), and its value property: "absent", "plain" ("value" in r but
\* no setter on its prototype) or "setter".
Methods == { "focus", "toggle", "expand", "collapse", "select", "scrollIntoView" }
ValueKinds == { "absent", "plain", "setter" }
ActionNames ==
  { "invoke", "focus", "set_value", "toggle", "expand", "collapse", "select",
    "scroll_into_view" }

\* The outcome of performAction: handled or not, and what was done to the
\* renderable.
Handled(effect) == [ handled |-> TRUE, effect |-> effect ]
NotHandled == [ handled |-> FALSE, effect |-> "none" ]

\* Mutant of callIfFunction: the method is called without the check.
callUnchecked(r, method) ==
  IF method \in r.methods THEN Handled(method) ELSE Handled("TypeError")

\* `if ("m" in r && typeof r.m === "function") { r.m(); return true }
\*  return false`
callIfFunction(r, method) ==
  IF method \in r.methods THEN Handled(method) ELSE NotHandled

\* What ctx.getRenderableById returns for an id that names no renderable.
NoRenderable == [ found |-> FALSE, methods |-> {}, value |-> "absent" ]

\* AccessibilityManager.performAction; r is what ctx.getRenderableById
\* returns for the node id.
performAction(r, action) ==
  IF ~r.found THEN NotHandled
  ELSE CASE action = "invoke" -> Handled("emit click")
         [] action = "focus" -> callIfFunction(r, "focus")
         [] action = "set_value" ->
              IF r.value = "setter" THEN Handled("set value") ELSE NotHandled
         [] action = "toggle" ->
              IF "toggle" \in r.methods THEN Handled("toggle")
              ELSE Handled("emit click")
         [] action = "expand" -> callIfFunction(r, "expand")
         [] action = "collapse" -> callIfFunction(r, "collapse")
         [] action = "select" -> callIfFunction(r, "select")
         [] action = "scroll_into_view" -> callIfFunction(r, "scrollIntoView")
         [] OTHER -> NotHandled

\* new AccessibilityManager(ctx): disabled, empty mirror, no native bridge.
\* emitted, last and count record the events of the last manager call, that
\* call, and the number of manager calls so far.
AccessibilityManagerInit ==
  [ enabled |-> FALSE, nodes |-> << >>, focusedNodeId |-> None,
    nativeBridge |-> "undefined", emitted |-> << >>,
    last |-> [ op |-> "constructor", id |-> None, property |-> "none",
               known |-> FALSE ],
    count |-> 0 ]

\* No pure function is under test.
NoProbe ==
  [ fn |-> "none", flags |-> {}, role |-> "none", r |-> NoRenderable,
    action |-> "none", done |-> FALSE, u32 |-> 0, outFlags |-> {},
    outNumber |-> 0, outName |-> "", outcome |-> NotHandled,
    children |-> << >>, child |-> None, outChildren |-> << >> ]

\* The bridge is driven directly: the manager is never enabled and no pure
\* function is probed.
Direct ==
  /\ manager = AccessibilityManagerInit
  /\ probe = NoProbe
  /\ threads = Sequential

\* A run of one bridge: no script, no other bridge to compare with.
Unscripted ==
  /\ tape = << >>
  /\ ref = [ nodes |-> << >>, root_id |-> None, focused_id |-> None ]
  /\ Direct

Init == InitBridge /\ Unscripted /\ ids \in Universes

\* Mutant of without: removal cascades to the nodes whose parent_id is id.
withoutCascade(map, id) ==
  [ k \in { j \in (DOMAIN map) \ {id} : map[j].parent_id # id } |-> map[k] ]

\* The store without the entry of id (StringHashMap.fetchRemove).
without(map, id) == [ k \in (DOMAIN map) \ {id} |-> map[k] ]

\* upsertNode and removeNode on a disabled bridge: `if (!self.enabled) return`.
upsertNodeDisabled(data) ==
  /\ UNCHANGED << nodes, root_id, platform >>
  /\ calls' = << >>
  /\ result' = "ok"
  /\ last' = Last("upsertNode", data.id, data, FALSE, FALSE)

\* Mutant of upsertNodeUpdate: an updated node without parent becomes the
\* root, as in the create branch.
upsertNodeUpdateSetsRoot(data) ==
  LET id  == data.id
      upd == updateFromData(nodes[id], data)
      r   == platformUpdateNode(platform, id)
  IN  /\ nodes' = [ nodes EXCEPT ![id] = upd.node ]
      /\ root_id' = IF data.parent_id = None THEN id ELSE root_id
      /\ platform' = IF upd.changed THEN r.p ELSE platform
      /\ calls' = IF upd.changed THEN << Call("updateNode", id) >> ELSE << >>
      /\ result' = IF upd.changed /\ r.err # "none" THEN r.err ELSE "ok"
      /\ last' = Last("upsertNode", id, data, TRUE, upd.changed)

\* upsertNode, id in the store: update the existing node, forward updateNode
\* when updateFromData reports a change.
upsertNodeUpdate(data) ==
  LET id  == data.id
      upd == updateFromData(nodes[id], data)
      r   == platformUpdateNode(platform, id)
  IN  /\ nodes' = [ nodes EXCEPT ![id] = upd.node ]
      /\ root_id' = root_id
      /\ platform' = IF upd.changed THEN r.p ELSE platform
      /\ calls' = IF upd.changed THEN << Call("updateNode", id) >> ELSE << >>
      /\ result' = IF upd.changed /\ r.err # "none" THEN r.err ELSE "ok"
      /\ last' = Last("upsertNode", id, data, TRUE, upd.changed)

\* upsertNode, id not in the store: create the node, put it in the map,
\* forward addNode, then link it under its parent or register it as root.
upsertNodeCreate(data) ==
  LET id     == data.id
      node   == AccessibilityNodeInit(data)
      nodes1 == (id :> node) @@ nodes
      r      == platformAddNode(platform, id, node)
      parent == data.parent_id
  IN  /\ nodes' = IF parent # None /\ parent \in DOMAIN nodes1
                  THEN [ nodes1 EXCEPT ![parent] = addChild(@, id) ]
                  ELSE nodes1
      /\ root_id' = IF parent = None THEN id ELSE root_id
      /\ platform' = r.p
      /\ calls' = << Call("addNode", id) >>
      /\ result' = "ok"
      /\ last' = Last("upsertNode", id, data, FALSE, FALSE)

\* AccessibilityBridge.upsertNode
upsertNode(data) ==
  /\ Tick
  /\ UNCHANGED << focused_id, enabled >>
  /\ IF ~enabled THEN upsertNodeDisabled(data)
     ELSE IF data.id \in DOMAIN nodes THEN upsertNodeUpdate(data)
     ELSE upsertNodeCreate(data)

\* The allocations of upsertNode's create path that can fail: the node and
\* its strings (AccessibilityNode.init), the map entry (nodes.put), the
\* backend's own map entry (platform.addNode), the copy of the id for the
\* parent's children_ids (parent.addChild), the copy of the id for root_id.
FaultPoints == { "init", "put", "addNode", "addChild", "root_id" }

\* upsertNode on an enabled bridge, id not in the store, when the allocation
\* at `point` fails: the error is returned by `try`, `errdefer node.deinit()`
\* frees the node, and whatever was done before `point` stays done.  After
\* nodes.put the map entry stays, its key and value pointing into the freed
\* node; a failed root_id copy leaves root_id pointing to the freed old id.
upsertNodeFails(data, point) ==
  LET id     == data.id
      node   == AccessibilityNodeInit(data)
      nodes1 == (id :> node) @@ nodes
      r      == platformAddNode(platform, id, node)
      parent == data.parent_id
      early  == point \in { "init", "put" }
  IN  /\ steps < Limit(ids)
      /\ fault \notin Dangling
      /\ enabled
      /\ id \notin DOMAIN nodes
      /\ point = "addNode" => platform.initialized
      /\ point = "addChild" => ( parent # None /\ parent \in DOMAIN nodes1 )
      /\ point = "root_id" => parent = None
      /\ steps' = steps + 1
      /\ fault' = point
      /\ UNCHANGED << ids, tape, ref, manager, probe, threads, root_id,
                      focused_id, enabled >>
      /\ nodes' = IF early THEN nodes ELSE nodes1
      /\ platform' = IF point \in { "addChild", "root_id" } THEN r.p ELSE platform
      /\ calls' = IF early THEN << >> ELSE << Call("addNode", id) >>
      /\ result' = "OutOfMemory"
      /\ last' = Last("upsertNode", id, data, FALSE, FALSE)

\* The old text of the field is not null: it is freed before the dupe.
Frees(self, point) ==
  IF point = "parent_id" THEN self.parent_id # None ELSE self[point] # Null

\* upsertNode on an enabled bridge, id in the store, when the dupe for the
\* field `point` fails inside updateFromData: `try` returns the error before
\* platform.updateNode; the node is left as updateFromData left it.
upsertNodeUpdateFails(data, point) ==
  LET id   == data.id
      self == nodes[id]
  IN  /\ steps < Limit(ids)
      /\ fault \notin Dangling
      /\ enabled
      /\ id \in DOMAIN nodes
      /\ Dupes(self, data, point)
      /\ steps' = steps + 1
      /\ fault' = IF Frees(self, point) THEN "free" ELSE "dupe"
      /\ UNCHANGED << ids, tape, ref, manager, probe, threads, root_id,
                      focused_id, enabled, platform >>
      /\ nodes' = [ nodes EXCEPT ![id] = updateFromDataFails(self, data, point) ]
      /\ calls' = << >>
      /\ result' = "OutOfMemory"
      /\ last' = Last("upsertNode", id, data, TRUE, FALSE)

\* The bool an FFI entry point (accessibilityUpsertNode, ...RemoveNode,
\* ...SetFocus, ...Announce, ...NotifyPropertyChanged) returns for the
\* result of the bridge call: `catch |err| { ...; return false; }; return true`.
accessibilityEntry(res) == res = "ok"

\* Mutant of removeNodeSkip: an id that is not found is reported as an error.
removeNodeSkipFails(id) ==
  /\ UNCHANGED << nodes, root_id, focused_id, platform >>
  /\ calls' = << >>
  /\ result' = "NodeNotFound"
  /\ last' = Last("removeNode", id, NoData, FALSE, FALSE)

\* removeNode on a disabled bridge or with an id that fetchRemove does not
\* find: nothing happens, the call returns normally.
removeNodeSkip(id) ==
  /\ UNCHANGED << nodes, root_id, focused_id, platform >>
  /\ calls' = << >>
  /\ result' = "ok"
  /\ last' = Last("removeNode", id, NoData, FALSE, FALSE)

\* Mutant of removeNodeFound: focused_id is left alone when the focused node
\* is removed.
removeNodeFoundKeepsFocus(id) ==
  LET node   == nodes[id]
      nodes1 == without(nodes, id)
      parent == node.parent_id
      wasFocused == focused_id = id
      p1 == IF wasFocused THEN platformNotifyFocusChanged(platform, None).p
            ELSE platform
      r  == platformRemoveNode(p1, id)
  IN  /\ nodes' = IF parent # None /\ parent \in DOMAIN nodes1
                  THEN [ nodes1 EXCEPT ![parent] = removeChild(@, id) ]
                  ELSE nodes1
      /\ root_id' = IF root_id = id THEN None ELSE root_id
      /\ focused_id' = focused_id
      /\ platform' = r.p
      /\ calls' = (IF wasFocused THEN << Call("notifyFocusChanged", None) >>
                   ELSE << >>) \o << Call("removeNode", id) >>
      /\ result' = "ok"
      /\ last' = Last("removeNode", id, NoData, TRUE, FALSE)

\* removeNode, id in the store: take the node out of the map, unlink it from
\* its parent, clear root and focus, notify the backend.
removeNodeFound(id) ==
  LET node   == nodes[id]
      nodes1 == without(nodes, id)
      parent == node.parent_id
      wasFocused == focused_id = id
      p1 == IF wasFocused THEN platformNotifyFocusChanged(platform, None).p
            ELSE platform
      r  == platformRemoveNode(p1, id)
  IN  /\ nodes' = IF parent # None /\ parent \in DOMAIN nodes1
                  THEN [ nodes1 EXCEPT ![parent] = removeChild(@, id) ]
                  ELSE nodes1
      /\ root_id' = IF root_id = id THEN None ELSE root_id
      /\ focused_id' = IF wasFocused THEN None ELSE focused_id
      /\ platform' = r.p
      /\ calls' = (IF wasFocused THEN << Call("notifyFocusChanged", None) >>
                   ELSE << >>) \o << Call("removeNode", id) >>
      /\ result' = "ok"
      /\ last' = Last("removeNode", id, NoData, TRUE, FALSE)

\* AccessibilityBridge.removeNode
removeNode(id) ==
  /\ Tick
  /\ UNCHANGED enabled
  /\ IF ~enabled \/ id \notin DOMAIN nodes THEN removeNodeSkip(id)
     ELSE removeNodeFound(id)

\* Mutant of clearPreviousFocus: the old node keeps its focused flag.
clearPreviousFocusKeepsFlag(map, old_id) == map

\* setFocus, "Clear previous focus tracking": the node old_id, when it is
\* still in the store, loses its focused flag.
clearPreviousFocus(map, old_id) ==
  IF old_id # None /\ old_id \in DOMAIN map
  THEN [ map EXCEPT ![old_id].state = @ \ {"focused"} ]
  ELSE map

\* AccessibilityBridge.setFocus; id = None is a null id_ptr.
setFocus(id) ==
  /\ Tick
  /\ UNCHANGED << root_id, enabled >>
  /\ IF ~enabled THEN
       /\ UNCHANGED << nodes, focused_id, platform >>
       /\ calls' = << >>
       /\ result' = "ok"
       /\ last' = Last("setFocus", id, NoData, FALSE, FALSE)
     ELSE
       LET nodes1 == clearPreviousFocus(nodes, focused_id)
           found  == id # None /\ id \in DOMAIN nodes1
           r      == platformNotifyFocusChanged(platform, id)
       IN  /\ nodes' = IF found
                       THEN [ nodes1 EXCEPT ![id].state = @ \cup {"focused"} ]
                       ELSE nodes1
           /\ focused_id' = IF found THEN id ELSE None
           /\ platform' = IF found \/ id = None THEN r.p ELSE platform
           /\ calls' = IF found \/ id = None
                       THEN << Call("notifyFocusChanged", id) >> ELSE << >>
           /\ result' = "ok"
           /\ last' = Last("setFocus", id, NoData, found, FALSE)

\* Mutant of Orders: the iterator may visit a node twice and skip another.
OrdersWithRepeats(S) == [ 1 .. Cardinality(S) -> S ]

\* The sequences that list every element of the set S once: the orders in
\* which the hash map's iterator can visit the nodes.
Orders(S) ==
  { s \in [ 1 .. Cardinality(S) -> S ] : \A i, j \in DOMAIN s : i # j => s[i] # s[j] }

RECURSIVE removeAll(_, _)
removeAll(p, order) ==
  IF order = << >> THEN p
  ELSE removeAll(platformRemoveNode(p, Head(order)).p, Tail(order))

\* AccessibilityBridge.clear: not guarded by enabled; backend errors ignored.
clear ==
  /\ Tick
  /\ UNCHANGED enabled
  /\ \E order \in Orders(DOMAIN nodes) :
       /\ platform' = removeAll(platform, order)
       /\ calls' = [ i \in DOMAIN order |-> Call("removeNode", order[i]) ]
  /\ nodes' = << >>
  /\ root_id' = None
  /\ focused_id' = None
  /\ result' = "ok"
  /\ last' = Last("clear", None, NoData, FALSE, FALSE)

\* AccessibilityBridge.setEnabled: only the flag changes.
setEnabled(e) ==
  /\ Tick
  /\ enabled' = e
  /\ UNCHANGED << nodes, root_id, focused_id, platform >>
  /\ calls' = << >>
  /\ result' = "ok"
  /\ last' = Last("setEnabled", None, NoData, FALSE, FALSE)

\* AccessibilityBridge.announce
announce(message, priority) ==
  /\ Tick
  /\ UNCHANGED << nodes, root_id, focused_id, enabled >>
  /\ LET r == platformAnnounce(platform)
     IN  /\ platform' = IF enabled THEN r.p ELSE platform
         /\ calls' = IF enabled
                     THEN << [ fn |-> "announce", id |-> None,
                               message |-> message, priority |-> priority ] >>
                     ELSE << >>
         /\ result' = IF enabled /\ r.err # "none" THEN r.err ELSE "ok"
  /\ last' = Last("announce", None, NoData, FALSE, FALSE)

\* AccessibilityBridge.notifyPropertyChanged
notifyPropertyChanged(id, property) ==
  /\ Tick
  /\ UNCHANGED << nodes, root_id, focused_id, enabled >>
  /\ LET found == enabled /\ id \in DOMAIN nodes
         r     == platformNotifyPropertyChanged(platform, id)
     IN  /\ platform' = IF found THEN r.p ELSE platform
         /\ calls' = IF found
                     THEN << [ fn |-> "notifyPropertyChanged", id |-> id,
                               property |-> property ] >>
                     ELSE << >>
         /\ result' = IF found /\ r.err # "none" THEN r.err ELSE "ok"
         /\ last' = Last("notifyPropertyChanged", id, NoData, found, FALSE)

\* AccessibilityBridge.tick: forwards to the backend, which keeps no state
\* for it.
tick ==
  /\ Tick
  /\ UNCHANGED << nodes, root_id, focused_id, enabled, platform >>
  /\ calls' = IF enabled THEN << Call("tick", None) >> ELSE << >>
  /\ result' = "ok"
  /\ last' = Last("tick", None, NoData, FALSE, FALSE)

\* AccessibilityBridge.init, reached through accessibilityCreateBridge: a
\* new bridge with an empty store and a new backend.
init ==
  /\ Tick
  /\ nodes' = << >>
  /\ root_id' = None
  /\ focused_id' = None
  /\ enabled' = TRUE
  /\ platform' = platformCreate
  /\ calls' = << >>
  /\ result' = "ok"
  /\ last' = Last("init", None, NoData, FALSE, FALSE)

\* AccessibilityBridge.setActionCallback (no enabled check).
setActionCallback(callback) ==
  /\ Tick
  /\ UNCHANGED << nodes, root_id, focused_id, enabled >>
  /\ platform' = platformSetActionCallback(platform, callback)
  /\ calls' = << Call("setActionCallback", None) >>
  /\ result' = "ok"
  /\ last' = Last("setActionCallback", None, NoData, FALSE, FALSE)

\* AccessibilityBridge.deinit, reached through accessibilityDestroyBridge:
\* every node is destroyed, the ids are freed, the backend is destroyed.
deinit ==
  /\ Tick
  /\ nodes' = << >>
  /\ root_id' = None
  /\ focused_id' = None
  /\ UNCHANGED enabled
  /\ platform' = platformDeinit(platform)
  /\ calls' = << Call("deinit", None) >>
  /\ result' = "ok"
  /\ last' = Last("deinit", None, NoData, FALSE, FALSE)

\* ------------------------------------------------------------------------
\* The tree mirror (AccessibilityManager.ts)
\* ------------------------------------------------------------------------
\* Number of calls made to the manager in one run.
MaxManagerCalls == 3

\* An optional text or number that is undefined.
Undefined == "<undefined>"
UndefinedNumber == -1

\* AccessibilityState of a renderable: checked is "true", "false" or
\* "mixed"; flags holds the names of the other states that are true.
State(checked, flags) == [ checked |-> checked, flags |-> flags ]

\* A UI element as the manager reads it.  parent is renderable.parent?.id,
\* children is getChildren(), accessible is `"accessibilityHidden" in child`.
Renderable(id, look, focused, parent, children) ==
  [ id |-> id,
    accessibilityRole |-> look.role,
    accessibilityLabel |-> look.label,
    accessibilityValue |-> Undefined,
    accessibilityHint |-> Undefined,
    accessibilityDescription |-> Undefined,
    accessibilityHidden |-> look.hidden,
    accessibilityLive |-> "off",
    accessibilityState |-> look.state,
    accessibilityLevel |-> UndefinedNumber,
    accessibilityMin |-> UndefinedNumber,
    accessibilityMax |-> UndefinedNumber,
    accessibilityOrientation |-> look.orientation,
    x |-> 0, y |-> 0, width |-> 10, height |-> 1,
    parent |-> parent,
    children |-> children,
    focusable |-> TRUE,
    focused |-> focused,
    accessible |-> look.accessible ]

\* The AccessibilityNode the manager builds from a renderable (addNode,
\* buildAccessibilityTreeInternal).
nodeOf(r) ==
  [ id |-> r.id,
    role |-> r.accessibilityRole,
    label |-> r.accessibilityLabel,
    value |-> r.accessibilityValue,
    hint |-> r.accessibilityHint,
    description |-> r.accessibilityDescription,
    hidden |-> r.accessibilityHidden,
    live |-> r.accessibilityLive,
    state |-> r.accessibilityState,
    level |-> r.accessibilityLevel,
    min |-> r.accessibilityMin,
    max |-> r.accessibilityMax,
    orientation |-> r.accessibilityOrientation,
    boundingRect |-> [ x |-> r.x, y |-> r.y, width |-> r.width,
                       height |-> r.height ],
    parentId |-> r.parent,
    childrenIds |-> [ k \in 1 .. Len(r.children) |-> r.children[k].id ],
    focusable |-> r.focusable,
    focused |-> r.focused ]

\* NativeAccessibilityBridge.roleToFFI
roleToFFI(role) ==
  CASE role = "listitem" -> "list_item"
    [] role = "menuitem" -> "menu_item"
    [] role = "menubar" -> "menu_bar"
    [] role = "tablist" -> "tab_list"
    [] role = "tabpanel" -> "tab_panel"
    [] role = "treeitem" -> "tree_item"
    [] role = "gridcell" -> "grid_cell"
    [] role = "columnheader" -> "column_header"
    [] role = "rowheader" -> "row_header"
    [] role \in Roles \ { "list_item", "menu_item", "menu_bar", "tab_list",
                           "tab_panel", "tree_item", "grid_cell",
                           "column_header", "row_header" } -> role
    [] OTHER -> "none"

\* NativeAccessibilityBridge.stateToFFI: the flags that are true.
stateToFFI(state, focusable, focused, hidden) ==
  ( IF state.checked \in { "true", "mixed" } THEN { "checked" } ELSE {} )
  \cup state.flags
  \cup ( IF focusable THEN { "focusable" } ELSE {} )
  \cup ( IF focused THEN { "focused" } ELSE {} )
  \cup ( IF hidden THEN { "hidden" } ELSE {} )

\* NativeAccessibilityBridge.nodeToFFIData
nodeToFFIData(node) ==
  [ id |-> node.id,
    role |-> roleToFFI(node.role),
    name |-> node.label,
    value |-> node.value,
    description |-> node.description,
    hint |-> node.hint,
    rect |-> node.boundingRect,
    state |-> stateToFFI(node.state, node.focusable, node.focused, node.hidden),
    parentId |-> node.parentId,
    childCount |-> Len(node.childrenIds),
    liveSetting |-> node.live,
    orientation |-> IF node.orientation = Undefined THEN "horizontal"
                    ELSE node.orientation,
    level |-> IF node.level = UndefinedNumber THEN 0 ELSE node.level,
    minValue |-> node.min,
    maxValue |-> node.max,
    currentValue |-> UndefinedNumber ]

\* The wire record of a snapshot (lib.accessibilityUpsertNode): an undefined
\* text or parent id is null, an undefined number is 0, the child count is
\* informational.
packNodeData(d) ==
  LET text(t) == IF t = Undefined THEN Null ELSE t
      number(n) == IF n = UndefinedNumber THEN 0 ELSE n
  IN  [ id |-> d.id, role |-> d.role, name |-> text(d.name),
        value |-> text(d.value), description |-> text(d.description),
        hint |-> text(d.hint), rect |-> d.rect, state_flags |-> d.state,
        parent_id |-> d.parentId, live_setting |-> d.liveSetting,
        orientation |-> d.orientation, level |-> d.level,
        min_value |-> number(d.minValue), max_value |-> number(d.maxValue),
        current_value |-> number(d.currentValue) ]

\* NativeAccessibilityBridge.propertyToFFI
propertyToFFI(property) ==
  CASE property = "role" -> "role"
    [] property = "label" -> "name"
    [] property = "value" -> "value"
    [] property = "description" -> "description"
    [] property = "hint" -> "hint"
    [] property = "state" -> "state"
    [] property = "bounds" -> "bounds"
    [] property = "level" -> "level"
    [] property = "min" -> "min_value"
    [] property = "max" -> "max_value"
    [] OTHER -> Null

\* A call of the native library, as the manager's native bridge issues it.
NativeCall(op, id, data, property) ==
  [ op |-> op, id |-> id, data |-> data, property |-> property ]

\* The methods of NativeAccessibilityBridge: the native calls each makes.
\* nb is the state of manager.nativeBridge: "undefined" (no bridge object),
\* "null" (a bridge object whose bridgePtr is null) or "live".
nativeAddNode(nb, node) ==
  IF nb # "live" THEN << >>
  ELSE << NativeCall("upsertNode", node.id, packNodeData(nodeToFFIData(node)),
                     "none") >>

nativeUpdateNode(nb, node) ==
  IF nb # "live" THEN << >>
  ELSE << NativeCall("upsertNode", node.id, packNodeData(nodeToFFIData(node)),
                     "none") >>

\* Mutant of nativeRemoveNode: the removal is not forwarded to the native
\* store.
nativeRemoveNodeLocalOnly(nb, id) == << >>

nativeRemoveNode(nb, id) ==
  IF nb # "live" THEN << >>
  ELSE << NativeCall("removeNode", id, NoData, "none") >>

nativeNotifyPropertyChanged(nb, id, property) ==
  IF nb # "live" \/ propertyToFFI(property) = Null THEN << >>
  ELSE << NativeCall("notifyPropertyChanged", id, NoData,
                     propertyToFFI(property)) >>

nativeNotifyFocusChanged(nb, id) ==
  IF nb # "live" THEN << >>
  ELSE << NativeCall("setFocus", id, NoData, "none") >>

nativeAnnounce(nb) ==
  IF nb # "live" THEN << >>
  ELSE << NativeCall("announce", None, NoData, "none") >>

\* Mutant of nativeDestroy: the bridge is destroyed with the callback still
\* registered.
nativeDestroyKeepsCallback(nb) ==
  IF nb # "live" THEN << >>
  ELSE << NativeCall("deinit", None, NoData, "none") >>

\* NativeAccessibilityBridge.destroy
nativeDestroy(nb) ==
  IF nb # "live" THEN << >>
  ELSE << NativeCall("setActionCallback", None, NoData, "null"),
          NativeCall("deinit", None, NoData, "none") >>

\* new NativeAccessibilityBridge(lib, manager); created is what
\* accessibilityCreateBridge returned ("null" or "live").
nativeCreate(created) ==
  IF created # "live" THEN << >>
  ELSE << NativeCall("init", None, NoData, "none"),
          NativeCall("setActionCallback", None, NoData, "callback") >>

\* Mutant of walk: the children are visited before their parent.
RECURSIVE walkChildrenFirst(_)
walkChildrenFirst(r) ==
  LET RECURSIVE each(_)
      each(cs) == IF cs = << >> THEN << >>
                  ELSE ( IF Head(cs).accessible THEN walkChildrenFirst(Head(cs))
                         ELSE << >> ) \o each(Tail(cs))
  IN  each(r.children) \o << nodeOf(r) >>

\* buildAccessibilityTreeInternal: the nodes in the order they are stored and
\* registered.
RECURSIVE walk(_)
walk(r) ==
  LET RECURSIVE each(_)
      each(cs) == IF cs = << >> THEN << >>
                  ELSE ( IF Head(cs).accessible THEN walk(Head(cs))
                         ELSE << >> ) \o each(Tail(cs))
  IN  << nodeOf(r) >> \o each(r.children)

\* Mutant of set: the entry is not stored.
setNothing(map, id, node) == map

\* Map.set
set(map, id, node) ==
  [ i \in DOMAIN map \cup {id} |-> IF i = id THEN node ELSE map[i] ]

\* this.nodes.set for each node of a walk, in order.
RECURSIVE setAll(_, _)
setAll(map, ns) ==
  IF ns = << >> THEN map
  ELSE setAll(set(map, Head(ns).id, Head(ns)), Tail(ns))

\* The native calls of a walk, in order.
RECURSIVE nativeAddAll(_, _)
nativeAddAll(nb, ns) ==
  IF ns = << >> THEN << >>
  ELSE nativeAddNode(nb, Head(ns)) \o nativeAddAll(nb, Tail(ns))

Event(name, id, property) == [ name |-> name, id |-> id, property |-> property ]

ManagerLast(op, id, property, known) ==
  [ op |-> op, id |-> id, property |-> property, known |-> known ]

\* A call to the manager returns: m is the manager after the call, batch the
\* native calls it made, in order.  The native library runs each of them
\* before the call returns, so the next call to the manager finds them done.
Returned(m, batch) ==
  /\ steps = Len(tape)
  /\ manager.count < MaxManagerCalls
  /\ manager' = [ m EXCEPT !.count = manager.count + 1 ]
  /\ tape' = batch
  /\ steps' = 0
  /\ UNCHANGED << nodes, root_id, focused_id, enabled, platform, calls, result,
                  last, ids, fault, ref, probe, threads >>

\* A call that returns at its first check.
Ignored(op, id, property) ==
  Returned([ manager EXCEPT !.emitted = << >>,
                            !.last = ManagerLast(op, id, property, FALSE) ],
           << >>)

\* AccessibilityManager.initialize; native is "undefined" when there is no
\* render lib or the platform is not supported, else what
\* accessibilityCreateBridge returned.
initialize(native, root) ==
  LET ns == walk(root)
  IN  Returned([ manager EXCEPT !.enabled = TRUE,
                                !.nativeBridge = IF native = "undefined"
                                                 THEN manager.nativeBridge
                                                 ELSE native,
                                !.nodes = setAll(manager.nodes, ns),
                                !.emitted = << >>,
                                !.last = ManagerLast("setEnabled", root.id,
                                                     "none", TRUE) ],
               nativeCreate(native) \o nativeAddAll(native, ns))

\* Mutant of shutdown: focusedNodeId is kept.
shutdownKeepsFocus ==
  Returned([ manager EXCEPT !.enabled = FALSE,
                            !.nodes = << >>,
                            !.nativeBridge = "undefined",
                            !.emitted = << >>,
                            !.last = ManagerLast("setEnabled", None, "none",
                                                 FALSE) ],
           nativeDestroy(manager.nativeBridge))

\* AccessibilityManager.shutdown
shutdown ==
  Returned([ manager EXCEPT !.enabled = FALSE,
                            !.nodes = << >>,
                            !.focusedNodeId = None,
                            !.nativeBridge = "undefined",
                            !.emitted = << >>,
                            !.last = ManagerLast("setEnabled", None, "none",
                                                 FALSE) ],
           nativeDestroy(manager.nativeBridge))

\* AccessibilityManager.setEnabled
managerSetEnabled(e, native, root) ==
  IF e = manager.enabled THEN Ignored("setEnabled", None, "none")
  ELSE IF e THEN initialize(native, root)
  ELSE shutdown

\* AccessibilityManager.addNode
managerAddNode(r) ==
  IF ~manager.enabled THEN Ignored("addNode", r.id, "none")
  ELSE Returned([ manager EXCEPT !.nodes = set(manager.nodes, r.id, nodeOf(r)),
                                 !.emitted = << Event("node-added", r.id, "none") >>,
                                 !.last = ManagerLast("addNode", r.id, "none",
                                                      r.id \in DOMAIN manager.nodes) ],
                nativeAddNode(manager.nativeBridge, nodeOf(r)))

\* AccessibilityManager.removeNode
managerRemoveNode(id) ==
  IF ~manager.enabled \/ id \notin DOMAIN manager.nodes
  THEN Ignored("removeNode", id, "none")
  ELSE Returned([ manager EXCEPT !.nodes = without(manager.nodes, id),
                                 !.emitted = << Event("node-removed", id, "none") >>,
                                 !.last = ManagerLast("removeNode", id, "none", TRUE) ],
                nativeRemoveNode(manager.nativeBridge, id))

\* AccessibilityManager.updateNode
managerUpdateNode(r) ==
  IF ~manager.enabled \/ r.id \notin DOMAIN manager.nodes
  THEN Ignored("updateNode", r.id, "none")
  ELSE Returned([ manager EXCEPT !.nodes[r.id] = nodeOf(r),
                                 !.emitted = << Event("node-updated", r.id, "none") >>,
                                 !.last = ManagerLast("updateNode", r.id, "none", TRUE) ],
                nativeUpdateNode(manager.nativeBridge, nodeOf(r)))

\* The property names notifyPropertyChanged has a case for.
ManagerProperties ==
  { "role", "label", "value", "hint", "description", "hidden", "live",
    "state", "level", "min", "max", "orientation" }

\* The switch of notifyPropertyChanged: the node with the one field taken
\* from the renderable.
withProperty(node, r, property) ==
  CASE property = "role" -> [ node EXCEPT !.role = r.accessibilityRole ]
    [] property = "label" -> [ node EXCEPT !.label = r.accessibilityLabel ]
    [] property = "value" -> [ node EXCEPT !.value = r.accessibilityValue ]
    [] property = "hint" -> [ node EXCEPT !.hint = r.accessibilityHint ]
    [] property = "description" ->
         [ node EXCEPT !.description = r.accessibilityDescription ]
    [] property = "hidden" -> [ node EXCEPT !.hidden = r.accessibilityHidden ]
    [] property = "live" -> [ node EXCEPT !.live = r.accessibilityLive ]
    [] property = "state" -> [ node EXCEPT !.state = r.accessibilityState ]
    [] property = "level" -> [ node EXCEPT !.level = r.accessibilityLevel ]
    [] property = "min" -> [ node EXCEPT !.min = r.accessibilityMin ]
    [] property = "max" -> [ node EXCEPT !.max = r.accessibilityMax ]
    [] property = "orientation" ->
         [ node EXCEPT !.orientation = r.accessibilityOrientation ]

\* AccessibilityManager.notifyPropertyChanged
managerNotifyPropertyChanged(r, property) ==
  IF \/ ~manager.enabled
     \/ r.id \notin DOMAIN manager.nodes
     \/ property \notin ManagerProperties
  THEN Ignored("notifyPropertyChanged", r.id, property)
  ELSE Returned([ manager EXCEPT
                    !.nodes[r.id] = withProperty(manager.nodes[r.id], r, property),
                    !.emitted = << Event("property-changed", r.id, property) >>,
                    !.last = ManagerLast("notifyPropertyChanged", r.id,
                                         property, TRUE) ],
                nativeNotifyPropertyChanged(manager.nativeBridge, r.id, property))

\* AccessibilityManager.updateNodeChildren
managerUpdateNodeChildren(r) ==
  IF ~manager.enabled \/ r.id \notin DOMAIN manager.nodes
  THEN Ignored("updateNodeChildren", r.id, "none")
  ELSE LET node == [ manager.nodes[r.id] EXCEPT
                       !.childrenIds = nodeOf(r).childrenIds,
                       !.parentId = r.parent ]
       IN  Returned([ manager EXCEPT
                        !.nodes[r.id] = node,
                        !.emitted = << Event("node-updated", r.id, "none") >>,
                        !.last = ManagerLast("updateNodeChildren", r.id, "none",
                                             TRUE) ],
                    nativeUpdateNode(manager.nativeBridge, node))

\* Mutant of blurPrevious: the node that had the focus keeps its flag.
blurPreviousKeepsFlag(map, prev) == map

\* notifyFocusChanged, "Update focused state on old and new nodes": the node
\* named by focusedNodeId, when it is in the mirror, loses its flag.
blurPrevious(map, prev) ==
  IF prev # None /\ prev \in DOMAIN map
  THEN [ map EXCEPT ![prev].focused = FALSE ]
  ELSE map

\* AccessibilityManager.notifyFocusChanged; id is None for undefined.
managerNotifyFocusChanged(id) ==
  IF ~manager.enabled THEN Ignored("notifyFocusChanged", id, "none")
  ELSE LET map1 == blurPrevious(manager.nodes, manager.focusedNodeId)
           map2 == IF id # None /\ id \in DOMAIN map1
                   THEN [ map1 EXCEPT ![id].focused = TRUE ]
                   ELSE map1
       IN  Returned([ manager EXCEPT
                        !.nodes = map2,
                        !.focusedNodeId = id,
                        !.emitted = << Event("focus-changed", id, "none") >>,
                        !.last = ManagerLast("notifyFocusChanged", id, "none",
                                             id \in DOMAIN manager.nodes) ],
                    nativeNotifyFocusChanged(manager.nativeBridge, id))

\* AccessibilityManager.announce
managerAnnounce ==
  IF ~manager.enabled THEN Ignored("announce", None, "none")
  ELSE Returned([ manager EXCEPT
                    !.emitted = << Event("announcement", None, "none") >>,
                    !.last = ManagerLast("announce", None, "none", FALSE) ],
                nativeAnnounce(manager.nativeBridge))

\* The backend invokes the registered action callback for a request of the
\* OS: the callback runs manager.performAction.
invokeActionCallback(id) ==
  /\ ~platform.freed
  /\ platform.action_callback
  /\ manager.count < MaxManagerCalls
  /\ manager' = [ manager EXCEPT !.count = manager.count + 1,
                                 !.emitted = << >>,
                                 !.last = ManagerLast("performAction", id,
                                                      "none", FALSE) ]
  /\ UNCHANGED << nodes, root_id, focused_id, enabled, platform, calls, result,
                  last, steps, ids, fault, tape, ref, probe, threads >>

\* ------------------------------------------------------------------------
\* Specifications
\* ------------------------------------------------------------------------
\* Snapshots the caller sends in Spec: every id with every optional parent
\* id (itself and ids not in the store included).
TreeDatas ==
  { [ BaseData(i) EXCEPT !.parent_id = p ] : i \in ids, p \in ids \cup {None} }

Next ==
  \/ \E d \in TreeDatas : upsertNode(d)
  \/ \E i \in ids : removeNode(i)
  \/ \E i \in ids \cup {None} : setFocus(i)
  \/ clear

Spec == Init /\ [][Next]_vars

\* Snapshots the caller sends in SpecFields: the base snapshot of id 1 and
\* every snapshot that differs from it in one field.
FieldDatas ==
  LET b == BaseData(1) IN
  { b,
    [ b EXCEPT !.role = "checkbox" ],
    [ b EXCEPT !.name = Null ],
    [ b EXCEPT !.name = "Click Me Now" ],
    [ b EXCEPT !.value = "on" ],
    [ b EXCEPT !.description = "Submits the form" ],
    [ b EXCEPT !.hint = "Press Enter" ],
    [ b EXCEPT !.rect.x = 1 ],
    [ b EXCEPT !.rect.y = 1 ],
    [ b EXCEPT !.rect.width = 11 ],
    [ b EXCEPT !.rect.height = 2 ],
    [ b EXCEPT !.state_flags = {} ],
    [ b EXCEPT !.state_flags = {"focusable", "focused"} ],
    [ b EXCEPT !.state_flags = {"focusable", "checked"} ],
    [ b EXCEPT !.live_setting = "polite" ],
    [ b EXCEPT !.orientation = "vertical" ],
    [ b EXCEPT !.level = 1 ],
    [ b EXCEPT !.min_value = 1 ],
    [ b EXCEPT !.max_value = 100 ],
    [ b EXCEPT !.current_value = 50 ],
    [ b EXCEPT !.parent_id = 1 ],
    [ b EXCEPT !.parent_id = 2 ] }

InitFields == InitBridge /\ Unscripted /\ ids = {1}

NextFields ==
  \/ \E d \in FieldDatas : upsertNode(d)
  \/ \E i \in ids : removeNode(i)
  \/ \E i \in ids \cup {None} : setFocus(i)

\* One node, every field of the snapshot varying.
SpecFields == InitFields /\ [][NextFields]_vars

\* Snapshots the caller sends in SpecFocus: parentless nodes with and without
\* the focused bit in their state flags.
FocusDatas ==
  { [ BaseData(i) EXCEPT !.state_flags = f ] :
      i \in ids, f \in { {"focusable"}, {"focusable", "focused"} } }

InitFocus == InitBridge /\ Unscripted /\ ids = 1 .. 2

NextFocus ==
  \/ \E d \in FocusDatas : upsertNode(d)
  \/ \E i \in ids : removeNode(i)
  \/ \E i \in ids \cup {None} : setFocus(i)
  \/ clear

\* Two ids, the focused bit of the snapshots varying.
SpecFocus == InitFocus /\ [][NextFocus]_vars

\* The properties and announcements the caller sends in SpecOps.
Properties == { "name", "state" }
Messages == { "Saved" }
Priorities == { "off", "polite", "assertive" }

InitOps == InitBridge /\ Unscripted /\ ids = 1 .. 2

NextOps ==
  \/ \E d \in TreeDatas : upsertNode(d)
  \/ \E i \in ids : removeNode(i)
  \/ \E i \in ids \cup {None} : setFocus(i)
  \/ clear
  \/ \E e \in BOOLEAN : setEnabled(e)
  \/ \E m \in Messages, q \in Priorities : announce(m, q)
  \/ \E i \in ids, q \in Properties : notifyPropertyChanged(i, q)
  \/ tick

\* Every operation of the bridge, two ids.
SpecOps == InitOps /\ [][NextOps]_vars

InitAlloc == InitBridge /\ Unscripted /\ ids = 1 .. 2

NextAlloc ==
  \/ \E d \in TreeDatas : upsertNode(d)
  \/ \E d \in TreeDatas, point \in FaultPoints : upsertNodeFails(d, point)
  \/ \E i \in ids : removeNode(i)
  \/ \E i \in ids \cup {None} : setFocus(i)
  \/ clear

\* Two ids; the creation of a node may run out of memory.
SpecAlloc == InitAlloc /\ [][NextAlloc]_vars

\* Snapshots that also change the role and the name.
Edits ==
  { [ d EXCEPT !.role = role, !.name = name ] :
      d \in TreeDatas, role \in { "button", "checkbox" },
      name \in { "Click Me", "Renamed", Null } }

NextRealloc ==
  \/ \E d \in Edits : upsertNode(d)
  \/ \E d \in Edits, i \in DOMAIN UpdateFaultPoints :
       upsertNodeUpdateFails(d, UpdateFaultPoints[i])
  \/ \E i \in ids : removeNode(i)

\* One id; the update of a node may run out of memory.
SpecRealloc == InitFields /\ [][NextRealloc]_vars

\* The store operations a script can hold.
Inputs ==
  { [ op |-> "upsertNode", id |-> d.id, data |-> d ] : d \in TreeDatas }
  \cup { [ op |-> "removeNode", id |-> i, data |-> NoData ] : i \in ids }
  \cup { [ op |-> "setFocus", id |-> i, data |-> NoData ] : i \in ids \cup {None} }
  \cup { [ op |-> "clear", id |-> None, data |-> NoData ] }

Scripts == UNION { [ 1 .. n -> Inputs ] : n \in 0 .. MaxScript }

\* A bridge whose backend initialized, and the script it is about to run.
InitTwin ==
  /\ InitBridge
  /\ ids = 1 .. 2
  /\ tape \in Scripts
  /\ ref = [ nodes |-> << >>, root_id |-> None, focused_id |-> None ]
  /\ Direct

\* The next call of the script is op.
Scripted(op) == steps < Len(tape) /\ tape[steps + 1].op = op

\* The script has run against the bridge whose backend initialized: its
\* store is kept in ref, and a second bridge is created whose backend fails
\* to initialize (AccessibilityBridge.init over a create that leaves
\* initialized = false), to run the same script.
initSecondBridge ==
  /\ platform.initialized
  /\ steps = Len(tape)
  /\ ref' = Store
  /\ nodes' = << >>
  /\ root_id' = None
  /\ focused_id' = None
  /\ enabled' = TRUE
  /\ platform' = platformCreateFailed
  /\ calls' = << >>
  /\ result' = "ok"
  /\ last' = Last("init", None, NoData, FALSE, FALSE)
  /\ steps' = 0
  /\ fault' = "none"
  /\ UNCHANGED << ids, tape, manager, probe, threads >>

NextTwin ==
  \/ Scripted("upsertNode") /\ upsertNode(tape[steps + 1].data)
  \/ Scripted("removeNode") /\ removeNode(tape[steps + 1].id)
  \/ Scripted("setFocus") /\ setFocus(tape[steps + 1].id)
  \/ Scripted("clear") /\ clear
  \/ initSecondBridge

\* One script of store operations, run first against a bridge whose backend
\* initialized and then against a bridge whose backend did not.
SpecTwin == InitTwin /\ [][NextTwin]_vars

\* What a UI element can look like.
Looks ==
  { [ role |-> "button", label |-> "Click Me", hidden |-> FALSE,
      state |-> State("false", {}), orientation |-> Undefined,
      accessible |-> TRUE ],
    [ role |-> "listitem", label |-> "Save", hidden |-> TRUE,
      state |-> State("mixed", {"disabled"}), orientation |-> "vertical",
      accessible |-> TRUE ] }

\* A child that has no accessibility properties.
Plain ==
  [ role |-> "none", label |-> Undefined, hidden |-> FALSE,
    state |-> State("false", {}), orientation |-> Undefined,
    accessible |-> FALSE ]

\* Elements without children: element 1 is the root, element 2 its child.
Leaves ==
  { Renderable(i, look, f, IF i = 1 THEN None ELSE 1, << >>) :
      i \in 1 .. 2, look \in Looks, f \in BOOLEAN }

\* The UI trees the context can hold: the root alone, or the root with one
\* child.
Trees ==
  { r \in Leaves : r.id = 1 /\ ~r.focused }
  \cup { Renderable(1, look, FALSE, None, << c >>) :
           look \in Looks,
           c \in { l \in Leaves : l.id = 2 /\ ~l.focused }
                 \cup { Renderable(2, Plain, FALSE, 1, << >>) } }

\* The elements whose properties change: the second look is the new one.
Changed == { l \in Leaves : ~l.focused /\ l.accessibilityRole = "listitem" }

\* No bridge exists before the manager creates one.
InitManager ==
  /\ nodes = << >>
  /\ root_id = None
  /\ focused_id = None
  /\ enabled = FALSE
  /\ platform = platformDeinit(platformCreateFailed)
  /\ calls = << >>
  /\ result = "ok"
  /\ last = Last("none", None, NoData, FALSE, FALSE)
  /\ steps = 0
  /\ fault = "none"
  /\ ids = 1 .. 2
  /\ tape = << >>
  /\ ref = [ nodes |-> << >>, root_id |-> None, focused_id |-> None ]
  /\ manager = AccessibilityManagerInit
  /\ probe = NoProbe
  /\ threads = Sequential

NextManager ==
  \/ \E native \in { "undefined", "null", "live" }, root \in Trees :
       managerSetEnabled(TRUE, native, root)
  \/ \E root \in Changed : managerSetEnabled(FALSE, "undefined", root)
  \/ \E r \in Leaves : managerAddNode(r)
  \/ \E i \in 1 .. 2 : managerRemoveNode(i)
  \/ \E r \in Leaves : managerUpdateNode(r)
  \/ \E r \in Trees : managerUpdateNodeChildren(r)
  \/ \E r \in Changed, q \in ManagerProperties \cup { "bounds" } :
       managerNotifyPropertyChanged(r, q)
  \/ \E i \in 0 .. 2 : managerNotifyFocusChanged(i)
  \/ managerAnnounce
  \/ invokeActionCallback(1)
  \/ Scripted("init") /\ init
  \/ Scripted("setActionCallback")
       /\ setActionCallback(tape[steps + 1].property = "callback")
  \/ Scripted("deinit") /\ deinit
  \/ Scripted("upsertNode") /\ upsertNode(tape[steps + 1].data)
  \/ Scripted("removeNode") /\ removeNode(tape[steps + 1].id)
  \/ Scripted("setFocus") /\ setFocus(tape[steps + 1].id)
  \/ Scripted("notifyPropertyChanged")
       /\ notifyPropertyChanged(tape[steps + 1].id, tape[steps + 1].property)
  \/ Scripted("announce") /\ announce("Saved", "polite")

\* The manager over the native library: calls to the manager, and the native
\* calls each of them makes, run by the bridge.
SpecManager == InitManager /\ [][NextManager]_vars

\* The children_ids lists a node can hold (repeated ids included).
ChildFunctions == { "addChild", "removeChild" }
ChildLists == UNION { [ 1 .. n -> Ids ] : n \in 0 .. MaxChildren }

\* The pure functions under test and their arguments.
RoleFunctions == { "roleToControlType", "roleToATSPIRole", "roleToNSARole" }

Capabilities == [ found : {TRUE}, methods : SUBSET Methods, value : ValueKinds ]

Probes ==
  { [ NoProbe EXCEPT !.fn = "StateFlags", !.flags = f ] : f \in SUBSET Flags }
  \cup { [ NoProbe EXCEPT !.fn = g, !.role = role ] :
           g \in RoleFunctions, role \in Roles }
  \cup { [ NoProbe EXCEPT !.fn = "performAction", !.r = r, !.action = a ] :
           r \in Capabilities \cup {NoRenderable},
           a \in ActionNames \cup {"zoom"} }
  \cup { [ NoProbe EXCEPT !.fn = g, !.children = cs, !.child = c ] :
           g \in ChildFunctions, cs \in ChildLists, c \in Ids }

InitPure ==
  /\ InitBridge
  /\ ids = {1}
  /\ tape = << >>
  /\ ref = [ nodes |-> << >>, root_id |-> None, focused_id |-> None ]
  /\ manager = AccessibilityManagerInit
  /\ probe \in Probes
  /\ threads = Sequential

\* Nothing of the bridge or the manager changes while a function is probed.
ProbeOnly ==
  UNCHANGED << nodes, root_id, focused_id, enabled, platform, calls, result,
               last, steps, ids, fault, tape, ref, manager, threads >>

Untested == ~probe.done

\* StateFlags.toU32 followed by StateFlags.fromU32.
convertFlags ==
  /\ probe.fn = "StateFlags" /\ Untested
  /\ probe' = [ probe EXCEPT !.done = TRUE, !.u32 = toU32(probe.flags),
                              !.outFlags = fromU32(toU32(probe.flags)) ]
  /\ ProbeOnly

\* One of the three role mappings applied to a role.
mapRole ==
  /\ probe.fn \in RoleFunctions /\ Untested
  /\ probe' =
       CASE probe.fn = "roleToControlType" ->
              [ probe EXCEPT !.done = TRUE,
                             !.outNumber = roleToControlType(probe.role) ]
         [] probe.fn = "roleToATSPIRole" ->
              [ probe EXCEPT !.done = TRUE,
                             !.outNumber = roleToATSPIRole(probe.role) ]
         [] probe.fn = "roleToNSARole" ->
              [ probe EXCEPT !.done = TRUE,
                             !.outName = roleToNSARole(probe.role) ]
  /\ ProbeOnly

\* The backend's action callback: manager.performAction(nodeId, action).
requestAction ==
  /\ probe.fn = "performAction" /\ Untested
  /\ probe' = [ probe EXCEPT !.done = TRUE,
                              !.outcome = performAction(probe.r, probe.action) ]
  /\ ProbeOnly

\* AccessibilityNode.addChild or removeChild on a node with the given
\* children_ids.
editChildren ==
  /\ probe.fn \in ChildFunctions /\ Untested
  /\ LET self == [ AccessibilityNodeInit(NoData) EXCEPT
                     !.children_ids = probe.children ]
         after == IF probe.fn = "addChild" THEN addChild(self, probe.child)
                  ELSE removeChild(self, probe.child)
     IN  probe' = [ probe EXCEPT !.done = TRUE,
                                 !.outChildren = after.children_ids ]
  /\ ProbeOnly

NextPure == convertFlags \/ mapRole \/ requestAction \/ editChildren

\* The pure functions, each applied once to an argument chosen at the start.
SpecPure == InitPure /\ [][NextPure]_vars

\* ------------------------------------------------------------------------
\* Two threads call one bridge. Every operation is split at the points
\* where it touches the mutex: the call, mutex.lock(), the body, and the
\* return (where the deferred mutex.unlock() runs).

\* The operations of the bridge that the threads call.
BridgeOps ==
  { "upsertNode", "removeNode", "setFocus", "announce",
    "notifyPropertyChanged", "setActionCallback", "getNodeCount", "clear",
    "tick", "setEnabled", "isEnabled" }

\* The operations whose body only reads.
Readers == { "getNodeCount", "isEnabled" }

\* The operations whose first statement is self.mutex.lock().
Locking == BridgeOps \ { "isEnabled" }

\* The calls begun whose body is still to run.
Pending(th) ==
  Cardinality({ t \in Threads : /\ th.pc[t].at \in { "lock", "locked" }
                                /\ th.pc[t].op \notin Readers })

Move(t, position) == threads' = [ threads EXCEPT !.pc[t] = position ]

StoreUntouched ==
  UNCHANGED << nodes, root_id, focused_id, enabled, platform, calls, result,
               last, steps, ids, fault, tape, ref, manager, probe >>

\* Thread t calls an operation: control is at its first statement.
begin(t, op, id, flag) ==
  /\ threads.pc[t].at = "idle"
  /\ op \in Readers \/ steps + Pending(threads) < Limit(ids)
  /\ Move(t, Position(op, IF op \in Locking THEN "lock" ELSE "unlocked",
                      id, flag))
  /\ StoreUntouched

\* self.mutex.lock(): returns once no thread holds the mutex.
lock(t) ==
  /\ threads.pc[t].at \in { "lock", "callback" }
  /\ threads.mutex = Unlocked
  /\ threads' = [ threads EXCEPT !.mutex = t, !.pc[t].at = "locked" ]
  /\ StoreUntouched

\* The thread that holds the mutex is in the body of op.
Holding(op) ==
  /\ threads.mutex \in Threads
  /\ threads.pc[threads.mutex].op = op
  /\ threads.pc[threads.mutex].at = "locked"

Holder == threads.pc[threads.mutex]

\* AccessibilityBridge.getNodeCount: the body reads nodes under the mutex.
getNodeCount(t) ==
  /\ threads.mutex = t
  /\ threads.pc[t].op = "getNodeCount"
  /\ threads.pc[t].at = "locked"
  /\ Move(t, [ threads.pc[t] EXCEPT !.at = "done",
                                    !.id = Cardinality(DOMAIN nodes) ])
  /\ StoreUntouched

\* AccessibilityBridge.isEnabled: the body reads enabled; it takes no lock.
isEnabled(t) ==
  /\ threads.pc[t].op = "isEnabled"
  /\ threads.pc[t].at = "unlocked"
  /\ Move(t, [ threads.pc[t] EXCEPT !.at = "done", !.flag = enabled ])
  /\ StoreUntouched

\* Inside tick(), under the mutex, the backend invokes the registered action
\* callback on the calling thread, and the callback calls setFocus on the
\* same bridge: control is at setFocus's mutex.lock().
tickInvokesCallback(t, id) ==
  /\ threads.mutex = t
  /\ threads.pc[t].op = "tick"
  /\ threads.pc[t].at = "locked"
  /\ enabled
  /\ platform.action_callback
  /\ Move(t, Position("tick", "callback", id, FALSE))
  /\ StoreUntouched

\* mutex.lock() by the thread that already holds the mutex is undefined
\* behaviour of std.Thread.Mutex: the thread blocks for ever (no step), or
\* the build detects the deadlock and panics.
relock(t) ==
  /\ threads.pc[t].at = "callback"
  /\ threads.mutex = t
  /\ Move(t, [ threads.pc[t] EXCEPT !.at = "panic" ])
  /\ StoreUntouched

\* The operation returns; the deferred mutex.unlock() runs if it locked.
return(t) ==
  /\ threads.pc[t].at = "done"
  /\ threads' = [ threads EXCEPT
                    !.mutex = IF threads.mutex = t THEN Unlocked ELSE @,
                    !.pc[t] = Idle ]
  /\ StoreUntouched

InitMutex ==
  /\ InitBridge
  /\ ids = {1}
  /\ tape = << >>
  /\ ref = [ nodes |-> << >>, root_id |-> None, focused_id |-> None ]
  /\ manager = AccessibilityManagerInit
  /\ probe = NoProbe
  /\ threads = Sequential

\* The steps a thread takes by itself once it may.
Progress ==
  \/ \E t \in Threads : lock(t)
  \/ Holding("upsertNode") /\ upsertNode(BaseData(Holder.id))
  \/ Holding("removeNode") /\ removeNode(Holder.id)
  \/ Holding("setFocus") /\ setFocus(Holder.id)
  \/ Holding("announce") /\ announce("message", "polite")
  \/ Holding("notifyPropertyChanged")
       /\ notifyPropertyChanged(Holder.id, "name")
  \/ Holding("setActionCallback") /\ setActionCallback(Holder.flag)
  \/ Holding("clear") /\ clear
  \/ Holding("tick") /\ tick
  \/ Holding("setEnabled") /\ setEnabled(Holder.flag)
  \/ \E t \in Threads : getNodeCount(t)
  \/ \E t \in Threads : isEnabled(t)
  \/ \E t \in Threads : return(t)

NextMutex ==
  \/ \E t \in Threads, op \in { "upsertNode", "removeNode", "setFocus",
                                "notifyPropertyChanged" } :
       begin(t, op, 1, FALSE)
  \/ \E t \in Threads, op \in { "announce", "getNodeCount", "clear", "tick",
                                "isEnabled" } :
       begin(t, op, None, FALSE)
  \/ \E t \in Threads, op \in { "setActionCallback", "setEnabled" },
        flag \in BOOLEAN :
       begin(t, op, None, flag)
  \/ \E t \in Threads : tickInvokesCallback(t, 1)
  \/ \E t \in Threads : relock(t)
  \/ Progress

\* Two threads calling the operations of one bridge in any interleaving.
SpecMutex == InitMutex /\ [][NextMutex]_vars

\* The same, where a thread that can take its next step takes it at last.
SpecMutexFair == SpecMutex /\ WF_vars(Progress)

\* ------------------------------------------------------------------------
\* Properties
\* ------------------------------------------------------------------------
\* The ids listed in a sequence.
Range(seq) == { seq[i] : i \in DOMAIN seq }

NodeCount == Cardinality(DOMAIN nodes)

\* Every field of the snapshot equals the stored node's.
SameFields(node, data) ==
  /\ node.role = data.role
  /\ node.name = data.name
  /\ node.value = data.value
  /\ node.description = data.description
  /\ node.hint = data.hint
  /\ node.rect = data.rect
  /\ node.state = data.state_flags
  /\ node.live = data.live_setting
  /\ node.orientation = data.orientation
  /\ node.level = data.level
  /\ node.min_value = data.min_value
  /\ node.max_value = data.max_value
  /\ node.current_value = data.current_value
  /\ node.parent_id = data.parent_id

\* C1: root_id is null or the id of a node in the store whose parent_id is
\* null.
C1_RootIsLiveParentless ==
  root_id = None \/ (root_id \in DOMAIN nodes /\ nodes[root_id].parent_id = None)

\* C2: at most one node in the store has parent_id = null, and such a node
\* is the one registered as root_id.
C2_OnlyRootIsParentless ==
  /\ Cardinality({ i \in DOMAIN nodes : nodes[i].parent_id = None }) <= 1
  /\ \A i \in DOMAIN nodes : nodes[i].parent_id = None => root_id = i

\* C3: for every node p in the store, the ids in p.children_ids are the ids
\* of the nodes in the store whose parent_id is p.
C3_ChildrenAreTheLiveChildren ==
  \A p \in DOMAIN nodes :
    Range(nodes[p].children_ids) = { c \in DOMAIN nodes : nodes[c].parent_id = p }

\* C4: at most one node has state.focused set, and a node has it set exactly
\* when focused_id is its id.
C4_FocusedFlagMatchesFocusedId ==
  /\ Cardinality({ i \in DOMAIN nodes : "focused" \in nodes[i].state }) <= 1
  /\ \A i \in DOMAIN nodes : ("focused" \in nodes[i].state) <=> (focused_id = i)

\* C5: an upsert whose snapshot equals the stored node in every field makes
\* no backend call, reports unchanged and leaves the store as it was.
C5_IdenticalUpsertIsSilent ==
  [][ ( /\ last'.op = "upsertNode"
        /\ enabled
        /\ last'.id \in DOMAIN nodes
        /\ SameFields(nodes[last'.id], last'.data) )
      => ( /\ calls' = << >>
           /\ last'.changed = FALSE
           /\ result' = "ok"
           /\ nodes' = nodes
           /\ root_id' = root_id
           /\ focused_id' = focused_id
           /\ platform' = platform ) ]_vars

\* C5 witness: an upsert of a stored id has just reported unchanged.
C5_Witness ==
  /\ last.op = "upsertNode" /\ last.found /\ ~last.changed
  /\ SameFields(nodes[last.id], last.data)

\* C6: an upsert of a stored id whose snapshot differs from the stored node
\* in some field makes exactly one updateNode call and no other backend call,
\* and then the node holds the snapshot's fields and is dirty.
C6_DifferingUpsertUpdatesOnce ==
  [][ ( /\ last'.op = "upsertNode"
        /\ enabled
        /\ last'.id \in DOMAIN nodes
        /\ ~SameFields(nodes[last'.id], last'.data) )
      => ( /\ calls' = << Call("updateNode", last'.id) >>
           /\ last'.changed = TRUE
           /\ last'.id \in DOMAIN nodes'
           /\ SameFields(nodes'[last'.id], last'.data)
           /\ nodes'[last'.id].dirty ) ]_vars

\* C6 witness: an upsert of a stored id has just reported a change and
\* forwarded it.
C6_Witness ==
  /\ last.op = "upsertNode" /\ last.found /\ last.changed
  /\ calls = << Call("updateNode", last.id) >>

\* The part of C7 common to the claim and its amendment: one node more, one
\* addNode call, the node holds the snapshot.
C7_Added(id, data) ==
  /\ DOMAIN nodes' = DOMAIN nodes \cup {id}
  /\ Cardinality(DOMAIN nodes') = NodeCount + 1
  /\ calls' = << Call("addNode", id) >>
  /\ SameFields(nodes'[id], data)

\* children_ids of node p before the call, the new node having none yet.
C7_ChildrenBefore(p) == IF p \in DOMAIN nodes THEN nodes[p].children_ids ELSE << >>

C8_RemoveUnlinksAndNotifies ==
  [][ ( last'.op = "removeNode" /\ enabled /\ last'.id \in DOMAIN nodes )
      => LET id == last'.id
             parent == nodes[id].parent_id
         IN  /\ DOMAIN nodes' = DOMAIN nodes \ {id}
             /\ Cardinality(DOMAIN nodes') = NodeCount - 1
             /\ (parent \in DOMAIN nodes'
                   => id \notin Range(nodes'[parent].children_ids))
             /\ (root_id = id => root_id' = None)
             /\ (focused_id = id => focused_id' = None)
             /\ Cardinality({ k \in DOMAIN calls' : calls'[k].fn = "removeNode" }) = 1
             /\ \A k \in DOMAIN calls' :
                  calls'[k].fn = "removeNode" => calls'[k].id = id ]_vars

\* C9: removeNode of an id that is not in the store returns success, makes no
\* backend call and leaves the store as it was.
C9_RemoveUnknownIsNoOp ==
  [][ ( last'.op = "removeNode" /\ enabled /\ last'.id \notin DOMAIN nodes )
      => ( /\ result' = "ok"
           /\ calls' = << >>
           /\ nodes' = nodes
           /\ root_id' = root_id
           /\ focused_id' = focused_id
           /\ platform' = platform ) ]_vars

\* C9 witness: removeNode has just been called with an id that was not found
\* while other nodes are in the store.
C9_Witness ==
  /\ last.op = "removeNode" /\ ~last.found /\ enabled
  /\ last.id \notin DOMAIN nodes
  /\ nodes # << >>
  /\ root_id # None

\* C10: removeNode of a stored id keeps every other node, its children
\* included, with every field as it was (their parent_id still the removed
\* id), except the children_ids of the removed node's parent.
C10_RemoveOrphansChildren ==
  [][ ( last'.op = "removeNode" /\ enabled /\ last'.id \in DOMAIN nodes )
      => LET id == last'.id
             parent == nodes[id].parent_id
         IN  \A j \in (DOMAIN nodes) \ {id} :
               /\ j \in DOMAIN nodes'
               /\ (nodes[j].parent_id = id => nodes'[j].parent_id = id)
               /\ IF j = parent
                  THEN [ nodes'[j] EXCEPT !.children_ids = nodes[j].children_ids ]
                         = nodes[j]
                  ELSE nodes'[j] = nodes[j] ]_vars

\* C10 witness: a node has just been removed while a child of it, upserted
\* after it, stays in the store with parent_id naming it.
C10_Witness ==
  /\ last.op = "removeNode" /\ last.found
  /\ last.id \notin DOMAIN nodes
  /\ \E c \in DOMAIN nodes : nodes[c].parent_id = last.id

\* A node of the map m carries the focused flag.
IsFocused(m, id) == id \in DOMAIN m /\ "focused" \in m[id].state

\* C11: when setFocus(B) directly follows a setFocus(A) that found A, with B
\* another node of the store, A is no longer flagged focused and B is; when
\* setFocus(none) directly follows a setFocus that found its node, no node
\* of the store is flagged focused and focused_id is null.
C11_FocusMovesAndClears ==
  [][ ( last.op = "setFocus" /\ last.found /\ last'.op = "setFocus" /\ enabled )
      => ( /\ ( last'.found /\ last'.id # last.id /\ last.id \in DOMAIN nodes' )
                => ( ~IsFocused(nodes', last.id) /\ IsFocused(nodes', last'.id) )
           /\ last'.id = None
                => ( /\ focused_id' = None
                     /\ \A j \in DOMAIN nodes' : ~IsFocused(nodes', j) ) ) ]_vars

\* C12: setFocus with an id that is not in the store returns success, ends
\* with focused_id null and the previously focused node unflagged, and gives
\* the focused flag to no node.
C12_FocusUnknownClears ==
  [][ ( last'.op = "setFocus" /\ enabled /\ last'.id # None
        /\ last'.id \notin DOMAIN nodes )
      => ( /\ result' = "ok"
           /\ focused_id' = None
           /\ DOMAIN nodes' = DOMAIN nodes
           /\ ~IsFocused(nodes', focused_id)
           /\ \A j \in DOMAIN nodes' :
                IsFocused(nodes', j) => IsFocused(nodes, j) ) ]_vars

\* A setFocus with an unknown id has just ended the focus of a node that the
\* backend had been told about.
C12_Witness ==
  /\ last.op = "setFocus" /\ last.id # None /\ last.id \notin DOMAIN nodes
  /\ enabled /\ focused_id = None
  /\ platform.focused_node_id \in DOMAIN nodes
  /\ ~IsFocused(nodes, platform.focused_node_id)

\* C13: the backend's focused_node_id equals the store's focused_id.
C13_BackendFocusMatchesStore == platform.focused_node_id = focused_id

\* The operations that are guarded by the enabled flag according to C14.
GuardedOps ==
  { "upsertNode", "removeNode", "setFocus", "notifyPropertyChanged",
    "announce", "clear", "tick" }

\* C14: on a disabled bridge each of upsertNode, removeNode, setFocus,
\* notifyPropertyChanged, announce, clear and tick returns success, makes no
\* backend call and leaves nodes, root_id and focused_id unchanged.
C14_DisabledIsNoOp ==
  [][ ( ~enabled /\ last'.op \in GuardedOps )
      => ( /\ result' = "ok"
           /\ calls' = << >>
           /\ nodes' = nodes
           /\ root_id' = root_id
           /\ focused_id' = focused_id ) ]_vars

\* C15: when a disabled bridge is enabled again the store is empty: no
\* node, root_id and focused_id null.
C15_ReenableStartsEmpty ==
  [][ ( ~enabled /\ enabled' )
      => ( NodeCount' = 0 /\ root_id' = None /\ focused_id' = None ) ]_vars

\* C16: on an enabled bridge notifyPropertyChanged(id, property) returns
\* success, makes one backend notifyPropertyChanged call for id when id is in
\* the store and no backend call when it is not, and changes no node,
\* root_id or focused_id.
C16_NotifyPropertyForwardsOnce ==
  [][ ( last'.op = "notifyPropertyChanged" /\ enabled )
      => ( /\ result' = "ok"
           /\ IF last'.id \in DOMAIN nodes
              THEN /\ Len(calls') = 1
                   /\ calls'[1].fn = "notifyPropertyChanged"
                   /\ calls'[1].id = last'.id
              ELSE calls' = << >>
           /\ nodes' = nodes
           /\ root_id' = root_id
           /\ focused_id' = focused_id ) ]_vars

\* A property change of a node in the store has just been forwarded; another
\* node is focused.
C16_Witness ==
  /\ last.op = "notifyPropertyChanged" /\ last.found
  /\ Len(calls) = 1 /\ calls[1].property = "state"
  /\ focused_id \notin { None, last.id }

C18_FailedCreateLeavesStore ==
  [][ ( last'.op = "upsertNode" /\ fault' # "none" )
      => ( /\ result' # "ok"
           /\ last'.id \notin DOMAIN nodes'
           /\ \A j \in DOMAIN nodes' : last'.id \notin Range(nodes'[j].children_ids)
           /\ nodes' = nodes
           /\ root_id' = root_id ) ]_vars

\* A backend call of the last bridge call returned an error: addNode ran out
\* of memory, or updateNode / notifyPropertyChanged did not find the node.
BackendErrored == fault = "addNode" \/ result = "NodeNotFound"

\* C20: when a backend call returns an error, the FFI entry point that made
\* the bridge call still returns true.
C20_BackendErrorNotSurfaced ==
  [][ BackendErrored' => accessibilityEntry(result') ]_vars
Mapped(g, role) == probe.fn = g /\ probe.role = role /\ probe.done

\* C22: performAction returns false and does nothing to the renderable when
\* the node id resolves to no renderable, when the action is not one of the
\* eight action names, and when the action is focus, set_value, expand,
\* collapse, select or scroll_into_view and the renderable lacks the method
\* or the value setter.
C22_Method ==
  [ focus |-> "focus", expand |-> "expand", collapse |-> "collapse",
    select |-> "select", scroll_into_view |-> "scrollIntoView" ]

C22_UnhandledActionReturnsFalse ==
  ( probe.fn = "performAction" /\ probe.done )
  => LET r == probe.r
         a == probe.action
     IN  ( \/ ~r.found
           \/ a \notin ActionNames
           \/ a \in DOMAIN C22_Method /\ C22_Method[a] \notin r.methods
           \/ a = "set_value" /\ r.value # "setter" )
         => probe.outcome = NotHandled

\* set_value was requested on a renderable that has a value property without
\* a setter, and was not handled.
C22_Witness ==
  /\ probe.fn = "performAction" /\ probe.done
  /\ probe.r.found /\ probe.action = "set_value"
  /\ probe.r.value = "plain" /\ probe.r.methods = Methods
  /\ probe.outcome = NotHandled

\* C29: each role mapping yields a value for every role, and maps button,
\* checkbox, textbox to 50000, 50002, 50004 (Windows), 42, 15, 60 (Linux) and
\* AXButton, AXCheckBox, AXTextField (macOS).
C29_RoleMappingsTotal ==
  /\ \A role \in Roles :
       /\ roleToControlType(role) \in 50000 .. 50038
       /\ roleToATSPIRole(role) \in 0 .. 200
       /\ roleToNSARole(role) \in STRING
  /\ Mapped("roleToControlType", "button") => probe.outNumber = 50000
  /\ Mapped("roleToControlType", "checkbox") => probe.outNumber = 50002
  /\ Mapped("roleToControlType", "textbox") => probe.outNumber = 50004
  /\ Mapped("roleToATSPIRole", "button") => probe.outNumber = 42
  /\ Mapped("roleToATSPIRole", "checkbox") => probe.outNumber = 15
  /\ Mapped("roleToATSPIRole", "textbox") => probe.outNumber = 60
  /\ Mapped("roleToNSARole", "button") => probe.outName = "AXButton"
  /\ Mapped("roleToNSARole", "checkbox") => probe.outName = "AXCheckBox"
  /\ Mapped("roleToNSARole", "textbox") => probe.outName = "AXTextField"

\* The Windows mapping has been applied to checkbox.
C29_Witness == Mapped("roleToControlType", "checkbox") /\ probe.outNumber = 50002

\* C30: fromU32(toU32(f)) = f for every set f of the 14 flags; checked is
\* bit 0, multiselectable bit 13, and no bit above bit 13 is set.
C30_StateFlagsRoundTrip ==
  ( probe.fn = "StateFlags" /\ probe.done )
  => ( /\ probe.outFlags = probe.flags
       /\ probe.u32 < 2 ^ 14
       /\ \A f \in Flags :
            (f \in probe.flags) <=> ((probe.u32 \div 2 ^ FlagBit[f]) % 2 = 1)
       /\ FlagBit["checked"] = 0 /\ FlagBit["multiselectable"] = 13
       /\ Cardinality({ FlagBit[f] : f \in Flags }) = 14 )

\* All 14 flags have been converted and read back.
C30_Witness ==
  probe.fn = "StateFlags" /\ probe.done /\ probe.flags = Flags /\ probe.u32 = 16383

\* The manager's own fields (what its callers can observe of it).
Mirror(m) ==
  [ enabled |-> m.enabled, nodes |-> m.nodes, focusedNodeId |-> m.focusedNodeId,
    nativeBridge |-> m.nativeBridge ]

\* The node holds the accessibility properties of the renderable.
Mirrors(n, r) ==
  /\ n.id = r.id
  /\ n.role = r.accessibilityRole
  /\ n.label = r.accessibilityLabel
  /\ n.value = r.accessibilityValue
  /\ n.hint = r.accessibilityHint
  /\ n.description = r.accessibilityDescription
  /\ n.hidden = r.accessibilityHidden
  /\ n.live = r.accessibilityLive
  /\ n.state = r.accessibilityState
  /\ n.level = r.accessibilityLevel
  /\ n.min = r.accessibilityMin
  /\ n.max = r.accessibilityMax
  /\ n.orientation = r.accessibilityOrientation
  /\ n.boundingRect = [ x |-> r.x, y |-> r.y, width |-> r.width,
                        height |-> r.height ]
  /\ n.parentId = r.parent
  /\ Len(n.childrenIds) = Len(r.children)
  /\ \A k \in 1 .. Len(r.children) : n.childrenIds[k] = r.children[k].id
  /\ n.focusable = r.focusable
  /\ n.focused = r.focused

\* C28: while the manager is enabled, addNode(renderable) leaves a node under
\* renderable.id in the mirror whose fields are the renderable's
\* accessibility properties; removeNode of an id in the mirror deletes it;
\* removeNode of an id not in the mirror changes nothing and emits no event.
C28_AddAndRemoveKeepMirror ==
  [][ /\ \A r \in Leaves :
           ( manager.enabled /\ managerAddNode(r) )
           => /\ r.id \in DOMAIN manager'.nodes
              /\ Mirrors(manager'.nodes[r.id], r)
      /\ \A i \in 1 .. 2 :
           ( manager.enabled /\ managerRemoveNode(i) )
           => IF i \in DOMAIN manager.nodes
              THEN i \notin DOMAIN manager'.nodes
              ELSE /\ Mirror(manager') = Mirror(manager)
                   /\ manager'.emitted = << >>
                   /\ tape' = << >> ]_vars

\* A node that addNode stored has been removed again.
C28_Witness ==
  /\ manager.enabled
  /\ manager.last.op = "removeNode" /\ manager.last.known
  /\ manager.nodes = << >>
  /\ manager.count = 3

\* The manager has just returned from a call.
ManagerCalled == manager'.count = manager.count + 1

\* C23: setEnabled(false) on the enabled manager empties the mirror, unsets
\* focusedNodeId, destroys the native bridge (when it has one) and drops it;
\* on the disabled manager addNode, removeNode, updateNode,
\* updateNodeChildren, notifyPropertyChanged, notifyFocusChanged and announce
\* change nothing, make no native call and emit no event.
C23_DisabledOps ==
  { "addNode", "removeNode", "updateNode", "updateNodeChildren",
    "notifyPropertyChanged", "notifyFocusChanged", "announce" }

C23_DisableClearsAndSilences ==
  [][ /\ ( ManagerCalled /\ manager.enabled /\ ~manager'.enabled )
         => /\ manager'.nodes = << >>
            /\ manager'.focusedNodeId = None
            /\ manager'.nativeBridge = "undefined"
            /\ ( manager.nativeBridge = "live" )
               <=> ( \E k \in 1 .. Len(tape') : tape'[k].op = "deinit" )
      /\ ( ManagerCalled /\ ~manager.enabled
           /\ manager'.last.op \in C23_DisabledOps )
         => /\ Mirror(manager') = Mirror(manager)
            /\ manager'.emitted = << >>
            /\ tape' = << >>
      /\ ( ~manager.enabled /\ steps = Len(tape) ) => platform.freed ]_vars

\* The manager was enabled with a live native bridge, then disabled, and
\* addNode was called on the disabled manager after the bridge had been
\* destroyed.
C23_Witness ==
  /\ ~manager.enabled
  /\ manager.last.op = "addNode"
  /\ manager.count = 3
  /\ last.op = "deinit"
  /\ platform.freed

\* The elements a walk from r reaches: r, and what is reached from each
\* child that has accessibility properties.
RECURSIVE C24_Reached(_)
C24_Reached(r) ==
  {r} \cup UNION { C24_Reached(r.children[k]) :
                     k \in { j \in 1 .. Len(r.children) : r.children[j].accessible } }

\* The upserts among the native calls, in order.
C24_Upserts(batch) == SelectSeq(batch, LAMBDA c : c.op = "upsertNode")

\* One upsert for each element reached from root, each parent's before its
\* children's.
C24_OneUpsertEach(batch, root) ==
  LET ups == C24_Upserts(batch)
  IN  /\ Len(ups) = Cardinality(C24_Reached(root))
      /\ \A e \in C24_Reached(root) :
           Cardinality({ k \in 1 .. Len(ups) : ups[k].id = e.id }) = 1
      /\ \A k, j \in 1 .. Len(ups) :
           ups[j].data.parent_id = ups[k].id => k < j

\* One mirror node for each element reached from root.
C24_OneNodeEach(map, root) ==
  /\ DOMAIN map = { e.id : e \in C24_Reached(root) }
  /\ \A e \in C24_Reached(root) : Mirrors(map[e.id], e)

C24_Natives == { "undefined", "null", "live" }

\* setEnabled with the value the manager already has does nothing.
C24_SameValueIgnored ==
  \A e \in BOOLEAN, native \in C24_Natives, root \in Trees :
    ( e = manager.enabled /\ managerSetEnabled(e, native, root) )
    => /\ Mirror(manager') = Mirror(manager)
       /\ manager'.emitted = << >>
       /\ tape' = << >>

\* C24 as stated: setEnabled(true) on the disabled manager stores one mirror
\* node and issues exactly one native upsert for every element the walk
\* reaches, parents before children; setEnabled with the current value does
\* nothing.
C24_EnableUpsertsEveryElement ==
  [][ /\ \A native \in C24_Natives, root \in Trees :
           ( ~manager.enabled /\ managerSetEnabled(TRUE, native, root) )
           => /\ C24_OneNodeEach(manager'.nodes, root)
              /\ C24_OneUpsertEach(tape', root)
      /\ C24_SameValueIgnored ]_vars

\* C24 amended: setEnabled(true) on the disabled manager stores one mirror
\* node for every element the walk reaches; when a native bridge was created
\* with a live handle it issues exactly one native upsert for each of them,
\* parents before children, and otherwise it makes no native call;
\* setEnabled with the current value does nothing.
C24_EnableUpsertsWhenNative ==
  [][ /\ \A native \in C24_Natives, root \in Trees :
           ( ~manager.enabled /\ managerSetEnabled(TRUE, native, root) )
           => /\ C24_OneNodeEach(manager'.nodes, root)
              /\ IF native = "live" THEN C24_OneUpsertEach(tape', root)
                 ELSE tape' = << >>
      /\ C24_SameValueIgnored ]_vars

\* The manager was enabled over a root with a child, with a live native
\* bridge, and both upserts have reached the store.
C24_Witness ==
  /\ manager.enabled
  /\ manager.last.op = "setEnabled"
  /\ manager.nativeBridge = "live"
  /\ DOMAIN manager.nodes = 1 .. 2
  /\ steps = Len(tape)
  /\ DOMAIN nodes = 1 .. 2

\* C27: on the enabled manager, after notifyFocusChanged(id) for an id in
\* the mirror that node's focused is true, focusedNodeId is id, and the node
\* that focusedNodeId named before (another node of the mirror) has focused
\* false; after notifyFocusChanged(undefined) the node that focusedNodeId
\* named has focused false and focusedNodeId is undefined.
C27_FocusMovesInMirror ==
  [][ \A i \in 0 .. 2 :
        ( manager.enabled /\ managerNotifyFocusChanged(i) )
        => LET prev == manager.focusedNodeId
               blurred == ( prev # None /\ prev # i
                            /\ prev \in DOMAIN manager.nodes )
                          => ~manager'.nodes[prev].focused
           IN  /\ DOMAIN manager'.nodes = DOMAIN manager.nodes
               /\ manager'.focusedNodeId = i
               /\ blurred
               /\ ( i \in DOMAIN manager.nodes ) => manager'.nodes[i].focused ]_vars

\* The focus went to node 1 and then to node 2.
C27_Witness ==
  /\ manager.enabled
  /\ manager.last.op = "notifyFocusChanged"
  /\ manager.focusedNodeId = 2
  /\ DOMAIN manager.nodes = 1 .. 2
  /\ manager.nodes[2].focused
  /\ ~manager.nodes[1].focused
  /\ manager.count = 3

\* The native call that corresponds to a call to the manager.
C25_Corresponding ==
  [ addNode |-> "upsertNode", removeNode |-> "removeNode",
    updateNode |-> "upsertNode", updateNodeChildren |-> "upsertNode",
    notifyFocusChanged |-> "setFocus",
    notifyPropertyChanged |-> "notifyPropertyChanged" ]

\* C25: on the enabled manager with a live native bridge, each addNode, and
\* each removeNode, updateNode, updateNodeChildren, notifyFocusChanged and
\* notifyPropertyChanged (for each of the twelve property names the manager
\* has a case for) on a node of the mirror, issues exactly one native call,
\* the corresponding one, for that node.
C25_OneNativeCallPerChange ==
  [][ ( /\ ManagerCalled
        /\ manager.enabled /\ manager.nativeBridge = "live"
        /\ manager'.last.op \in DOMAIN C25_Corresponding
        /\ \/ manager'.last.op = "addNode"
           \/ manager'.last.id \in DOMAIN manager.nodes
        /\ manager'.last.op = "notifyPropertyChanged"
           => manager'.last.property \in ManagerProperties )
      => /\ Len(tape') = 1
         /\ tape'[1].op = C25_Corresponding[manager'.last.op]
         /\ tape'[1].id = manager'.last.id ]_vars

\* The node the native store would hold for a mirror node after an upsert.
C26_Upserted(node) == AccessibilityNodeInit(packNodeData(nodeToFFIData(node)))

\* C26: whenever a notifyPropertyChanged(id, property) issued by the manager
\* runs in the native store, the store's node for id holds the value the
\* mirror has for that property.
C26_NotifiedValueAlreadyStored ==
  [][ ( Scripted("notifyPropertyChanged") /\ steps' = steps + 1 )
      => LET c == tape[steps + 1]
         IN  /\ c.id \in DOMAIN nodes
             /\ c.id \in DOMAIN manager.nodes
             /\ nodes[c.id][c.property]
                  = C26_Upserted(manager.nodes[c.id])[c.property] ]_vars

\* C21: when the bridge is destroyed the backend holds no action callback
\* (NativeAccessibilityBridge.destroy clears it first), a destroyed backend
\* never holds one, and no invocation of the callback is made by a destroyed
\* backend.
C21_NoCallbackAfterDestroy ==
  [][ /\ ( Scripted("deinit") /\ steps' = steps + 1 )
         => ~platform.action_callback
      /\ platform'.freed => ~platform'.action_callback
      /\ ( ManagerCalled /\ manager'.last.op = "performAction" )
         => ( ~platform.freed /\ ~platform'.freed ) ]_vars

\* A bridge whose callback had been registered has been destroyed by the
\* manager's third call.
C21_Witness ==
  /\ last.op = "deinit"
  /\ platform.freed
  /\ ~platform.action_callback
  /\ manager.last.op = "setEnabled"
  /\ ~manager.enabled
  /\ manager.count = 3

\* C31: addChild appends the id at the end of children_ids, so the list is
\* in the order of the additions; removeChild removes the first entry equal
\* to the id and keeps the other entries in their order (and changes nothing
\* when no entry equals the id).
C31_ChildrenKeepInsertionOrder ==
  ( probe.fn \in ChildFunctions /\ probe.done )
  => LET old == probe.children
         new == probe.outChildren
         c == probe.child
     IN  IF probe.fn = "addChild"
         THEN /\ Len(new) = Len(old) + 1
              /\ new[Len(new)] = c
              /\ \A k \in 1 .. Len(old) : new[k] = old[k]
         ELSE IF \A k \in 1 .. Len(old) : old[k] # c
         THEN new = old
         ELSE /\ Len(new) = Len(old) - 1
              /\ \E i \in 1 .. Len(old) :
                   /\ old[i] = c
                   /\ \A k \in 1 .. (i - 1) : old[k] # c /\ new[k] = old[k]
                   /\ \A k \in i .. Len(new) : new[k] = old[k + 1]

\* removeChild(2) has been applied to the list << 2, 1, 2 >> and has left
\* << 1, 2 >>.
C31_Witness ==
  /\ probe.fn = "removeChild" /\ probe.done
  /\ probe.children = << 2, 1, 2 >> /\ probe.child = 2
  /\ probe.outChildren = << 1, 2 >>

\* ------------------------------------------------------------------------
\* Thread t runs the body of its operation in this step: the reads and
\* writes of nodes, root_id, focused_id and enabled the operation makes.
Accesses(t) ==
  /\ threads.pc[t].at \in { "locked", "unlocked" }
  /\ threads'.pc[t].at = "done"

\* C32: every bridge operation (upsertNode, removeNode, setFocus, announce,
\* notifyPropertyChanged, setActionCallback, getNodeCount, clear, tick,
\* setEnabled, isEnabled) holds the store mutex while it reads or writes the
\* store's state, so no operation reads or writes it while another thread is
\* inside an operation.
C32_OperationsHoldMutex ==
  [][ \A t \in Threads : Accesses(t) => threads.mutex = t ]_vars

C34_FailedUpdateKeepsNode ==
  [][ \A d \in Edits, i \in DOMAIN UpdateFaultPoints :
        upsertNodeUpdateFails(d, UpdateFaultPoints[i])
          => /\ ~accessibilityEntry(result')
             /\ calls' = << >>
             /\ nodes' = nodes ]_vars

\* C35: after any sequence of upsertNode, removeNode, setFocus and clear,
\* focused_id is none or the id of a node in the store.
C35_FocusedIdInStore == focused_id = None \/ focused_id \in DOMAIN nodes

\* The focused node has just been removed.
C35_Witness ==
  /\ last.op = "removeNode" /\ last.found
  /\ Len(calls) = 2 /\ calls[1] = Call("notifyFocusChanged", None)
  /\ focused_id = None
  /\ nodes # << >>

\* Every entry of s occurs in s once.
NoRepeats(s) == \A i, j \in DOMAIN s : s[i] = s[j] => i = j

\* C36: after any sequence of upsertNode and removeNode, every id in any
\* node's children_ids is the id of a node in the store and occurs in that
\* list at most once.
C36_ChildrenInStoreOnce ==
  \A id \in DOMAIN nodes :
    /\ Range(nodes[id].children_ids) \subseteq DOMAIN nodes
    /\ NoRepeats(nodes[id].children_ids)

\* The fields of a node that updateFromData can rewrite.
DataFields ==
  { "role", "name", "value", "description", "hint", "rect", "state", "live",
    "orientation", "level", "min_value", "max_value", "current_value",
    "parent_id" }

\* The value a snapshot carries for a field of the node.
DataOf(data, f) ==
  IF f = "state" THEN data.state_flags
  ELSE IF f = "live" THEN data.live_setting
  ELSE data[f]

\* C37: upsertNode on an id already in the store never changes the node
\* count, root_id, focused_id, any node's children_ids, or any field of any
\* other node; of the target it rewrites only fields that differ from the
\* snapshot, to the snapshot's value.
C37_UpdateTouchesOnlyTarget ==
  [][ ( steps' = steps + 1 /\ last'.op = "upsertNode" /\ last'.found )
        => LET d == last'.data IN
           /\ DOMAIN nodes' = DOMAIN nodes
           /\ root_id' = root_id
           /\ focused_id' = focused_id
           /\ \A id \in DOMAIN nodes :
                nodes'[id].children_ids = nodes[id].children_ids
           /\ \A id \in DOMAIN nodes \ { d.id } : nodes'[id] = nodes[id]
           /\ \A f \in DataFields :
                nodes'[d.id][f] # nodes[d.id][f]
                  => nodes'[d.id][f] = DataOf(d, f) ]_vars

\* An update has moved a node under another parent in a store that has a
\* focused node and a node with children.
C37_Witness ==
  /\ last.op = "upsertNode" /\ last.found /\ last.changed
  /\ Cardinality(DOMAIN nodes) >= 2
  /\ focused_id # None
  /\ \E id \in DOMAIN nodes : nodes[id].children_ids # << >>

\* C38: with the backend initialized, after any sequence of successful
\* upsertNode, removeNode and clear calls the backend tracks exactly the ids
\* of the store and its root_node_id equals the store's root_id.
C38_BackendTracksStore ==
  platform.initialized
    => /\ platform.nodes = DOMAIN nodes
       /\ platform.root_node_id = root_id

\* The root has been removed while another node stays in the store and in
\* the backend.
C38_Witness ==
  /\ platform.initialized
  /\ last.op = "removeNode" /\ last.found
  /\ root_id = None
  /\ platform.nodes # {}

\* C39: while the manager is enabled, after any sequence of addNode,
\* removeNode, updateNode and notifyFocusChanged, focusedNodeId is undefined
\* or the id of a node of the mirror whose focused is true.
C39_FocusedNodeIdInMirror ==
  manager.enabled
    => \/ manager.focusedNodeId = None
       \/ /\ manager.focusedNodeId \in DOMAIN manager.nodes
          /\ manager.nodes[manager.focusedNodeId].focused

\* C40: while the manager is enabled with a native bridge and no native call
\* fails, after every manager operation (the walk of enable, addNode,
\* removeNode, updateNode, updateNodeChildren) the ids of the mirror are the
\* ids of the native store.
C40_MirrorIdsAreStoreIds ==
  ( manager.enabled /\ manager.nativeBridge = "live" /\ steps = Len(tape) )
    => DOMAIN manager.nodes = DOMAIN nodes

\* A node has been removed through the manager while another one stays, and
\* the native calls of the removal have run.
C40_Witness ==
  /\ manager.enabled /\ manager.nativeBridge = "live" /\ steps = Len(tape)
  /\ manager.last.op = "removeNode" /\ manager.last.known
  /\ last.op = "removeNode" /\ last.found
  /\ manager.nodes # << >>
====
